---- MODULE Spec2Model ----
(***************************************************************************)
(* Process-lifecycle and event-translation layer of the desktop mascot     *)
(* backend: spawning the external CLI (Claude or Codex, or the per-query   *)
(* Node sidecar of the earlier variant), reading its line-delimited JSON   *)
(* output, routing events to the frontend, and the shared cells (session   *)
(* identifiers, retained stdin handle, active subagents, working           *)
(* directory).                                                             *)
(***************************************************************************)
EXTENDS Integers, Sequences, FiniteSets, TLC

\* ------------------------------------------------------------------ bounds
MaxTurns == 2
MaxLines == 3
MaxReplies == 1
MaxStderr == 1

\* ------------------------------------------------------- program constants
MAX_RECENT_CWDS == 5

\* ------------------------------------------------------------ Option<T>
None == <<>>
Some(x) == <<x>>
IsSome(o) == Len(o) = 1
Unwrap(o) == o[1]

\* Option field of a JSON object: absent fields deserialize to None.
Opt(obj, f) == IF f \in DOMAIN obj THEN Some(obj[f]) ELSE None

\* ------------------------------------------------------------ values
\* Text is a sequence of characters, so that concatenation, replacement and
\* substring search are computed as the code computes them.
Hi == <<"h", "i">>
TaskDefault == <<"t", "a", "s", "k">>
DescAB == <<"a", " ", "b">>

Sessions == {"s1"}
Threads == {"t1"}
\* The directories that exist.
Paths == {"p1", "p2", "p3", "p4", "p5", "p6"}
BadPath == "nodir"
Builds == {"cli", "sidecar"}

\* str::contains(text, pat) on character sequences.
ContainsText(text, pat) ==
    \E i \in 1..(Len(text) + 1) :
        /\ i + Len(pat) - 1 <= Len(text)
        /\ SubSeq(text, i, i + Len(pat) - 1) = pat

NameContainsWhole(name, pat) == name = <<pat>>

\* Tool names are sequences of segments ("mcp__mascot__", "set_emotion");
\* name.contains(pat) is decided on whole segments.
NameContains(name, pat) == \E i \in DOMAIN name : name[i] = pat

\* A frontend notification: app.emit(ev, data).
Note(ev, data) == [ev |-> ev, data |-> data]

\* ---------------------------------------------------- raw stdout lines
BlankLine == [raw |-> "blank"]
GarbageLine == [raw |-> "text"]
NonsenseLine == [raw |-> "json", type |-> "nonsense"]

\* line.trim().is_empty()
IsBlank(line) == line.raw = "blank"

\* ------------------------------------------------- Claude event schema
ClaudeTags == {"system", "assistant", "user", "result"}
ClaudeBlockTags == {"text", "tool_use"}

\* serde_json::from_str::<StreamEvent>(&line).is_ok()
ParsesAsStreamEvent(line) ==
    /\ line.raw = "json"
    /\ line.type \in ClaudeTags
    /\ line.type = "assistant" =>
          /\ "message" \in DOMAIN line
          /\ \A i \in DOMAIN line.message.content :
                line.message.content[i].type \in ClaudeBlockTags

\* format!("{}_{}", id, description.replace(' ', "_"))
TaskId(id, description) ==
    <<id, "_">> \o [i \in DOMAIN description |->
                       IF description[i] = " " THEN "_" ELSE description[i]]

\* input.get("questions").and_then(|q| from_value(q).ok()).unwrap_or_default()
ParseQuestions(input) ==
    IF "questions" \in DOMAIN input /\ input.questions.valid
    THEN input.questions.items
    ELSE <<>>

\* The Task branch of a tool_use block: track the subagent, emit subagent-start.
HandleTask(st, b) ==
    LET description == IF "description" \in DOMAIN b.input
                       THEN b.input.description ELSE TaskDefault
        task_id == TaskId(b.id, description)
    IN  [st EXCEPT !.subs = Append(@, task_id),
                   !.out = Append(@, Note("subagent-start",
                              [task_id |-> task_id, description |-> description]))]

\* The name-specific routing of a tool_use block.
RouteTool(st, b) ==
    IF b.name = <<"ExitPlanMode">>
    THEN [st EXCEPT !.out = Append(@, Note("agent-exit-plan-mode",
                                           [tool_use_id |-> b.id]))]
    ELSE IF b.name = <<"AskUserQuestion">>
    THEN [st EXCEPT !.out = Append(@, Note("agent-ask-question",
              [question_id |-> b.id, questions |-> ParseQuestions(b.input)]))]
    ELSE IF NameContains(b.name, "set_emotion")
    THEN [st EXCEPT !.out = Append(@, Note("agent-emotion", [input |-> b.input]))]
    ELSE IF NameContains(b.name, "move_to")
    THEN [st EXCEPT !.out = Append(@, Note("clawd-move", [input |-> b.input]))]
    ELSE st

\* One content block of an assistant message.
HandleBlock(st, b) ==
    IF b.type = "text"
    THEN [st EXCEPT !.out = Append(@, Note("agent-stream", [text |-> b.text]))]
    ELSE LET s1 == IF b.name = <<"Task">> THEN HandleTask(st, b) ELSE st
             s2 == RouteTool(s1, b)
         IN  [s2 EXCEPT !.out = Append(@, Note("agent-tool-use",
                                    [tool |-> b.name, input |-> b.input]))]

RECURSIVE HandleBlocks(_, _)
HandleBlocks(st, blocks) ==
    IF blocks = <<>> THEN st
    ELSE HandleBlocks(HandleBlock(st, Head(blocks)), Tail(blocks))

ResultSuccessAlways(subtype) == TRUE

\* subtype.as_deref() == Some("success")
ResultSuccess(subtype) == subtype = Some("success")

\* if let Some(sid) = session_id { SESSION_ID = Some(sid); save_session_to_disk }
UpdateSession(st, session_id) ==
    IF IsSome(session_id)
    THEN [st EXCEPT !.sid = session_id, !.file = session_id]
    ELSE st

\* for task_id in subagents.drain(..) { emit("subagent-end", task_id) }
FlushSubagents(st) ==
    [st EXCEPT !.subs = <<>>,
               !.out = @ \o [i \in DOMAIN st.subs |->
                               Note("subagent-end", [task_id |-> st.subs[i]])]]

\* The Result arm of handle_stream_event.
HandleResult(st, ev) ==
    LET s1 == UpdateSession(st, Opt(ev, "session_id"))
        s2 == FlushSubagents(s1)
        text == IF "result" \in DOMAIN ev THEN ev.result ELSE <<>>
    IN  [s2 EXCEPT !.out = Append(@, Note("agent-result",
                [success |-> ResultSuccess(Opt(ev, "subtype")), text |-> text]))]

\* handle_stream_event: st = [sid, file, subs, out] is the Claude session cell,
\* the session file, the active subagents and the notifications emitted.
HandleStreamEvent(st, ev) ==
    CASE ev.type = "system" -> UpdateSession(st, Opt(ev, "session_id"))
      [] ev.type = "assistant" -> HandleBlocks(st, ev.message.content)
      [] ev.type = "result" -> HandleResult(st, ev)
      [] OTHER -> st

\* -------------------------------------------------- Codex event schema
CodexTags == {"thread.started", "turn.started", "turn.completed", "turn.failed",
              "item.started", "item.completed", "error"}
CodexItemTags == {"message", "tool_call", "tool_result", "reasoning",
                  "mcp_tool_call", "agent_message"}
CodexContentTags == {"text", "input_text", "output_text"}

\* serde_json::from_str::<CodexStreamEvent>(&line).is_ok()
ParsesAsCodexEvent(line) ==
    /\ line.raw = "json"
    /\ line.type \in CodexTags
    /\ "item" \in DOMAIN line =>
          /\ line.item.type \in CodexItemTags
          /\ line.item.type = "message" =>
                \A i \in DOMAIN line.item.content :
                    line.item.content[i].type \in CodexContentTags

\* extract_text_from_content
ExtractTextFromContent(block) == Opt(block, "text")

\* handle_tool_call: a call without a name is dropped; arguments default to {}.
HandleToolCall(st, name, arguments) ==
    IF ~IsSome(name) THEN st
    ELSE LET n == Unwrap(name)
             input == IF IsSome(arguments) THEN Unwrap(arguments) ELSE [raw |-> "obj"]
             s1 == IF NameContains(n, "set_emotion")
                   THEN [st EXCEPT !.out = Append(@, Note("agent-emotion", [input |-> input]))]
                   ELSE IF NameContains(n, "move_to")
                   THEN [st EXCEPT !.out = Append(@, Note("clawd-move", [input |-> input]))]
                   ELSE st
         IN  [s1 EXCEPT !.out = Append(@, Note("agent-tool-use",
                                    [tool |-> n, input |-> input]))]

\* Whether a completed item's text is pushed and streamed:
\* !text.is_empty() && !accumulated_text.contains(&text)
CompletedTextIsNew(acc, text) == text # <<>> /\ ~ContainsText(acc, text)

StreamTextUnrecorded(st, text) ==
    [st EXCEPT !.out = Append(@, Note("agent-stream", [text |-> text]))]

\* accumulated_text.push_str(&text); emit("agent-stream", &text)
StreamText(st, text) ==
    [st EXCEPT !.acc = @ \o text,
               !.out = Append(@, Note("agent-stream", [text |-> text]))]

\* One optional text of an item: started items stream every non-empty text,
\* completed items only those not yet contained in the accumulator.
HandleItemText(st, text, completed) ==
    IF ~IsSome(text) THEN st
    ELSE IF completed
         THEN IF CompletedTextIsNew(st.acc, Unwrap(text))
              THEN StreamText(st, Unwrap(text)) ELSE st
         ELSE IF Unwrap(text) # <<>> THEN StreamText(st, Unwrap(text)) ELSE st

RECURSIVE HandleContent(_, _, _)
HandleContent(st, content, completed) ==
    IF content = <<>> THEN st
    ELSE HandleContent(
             HandleItemText(st, ExtractTextFromContent(Head(content)), completed),
             Tail(content), completed)

\* The ItemStarted / ItemCompleted arms of handle_codex_event.
HandleItem(st, item, completed) ==
    CASE item.type = "message" -> HandleContent(st, item.content, completed)
      [] item.type = "tool_call" ->
            HandleToolCall(st, Opt(item, "name"), Opt(item, "arguments"))
      [] item.type = "mcp_tool_call" ->
            HandleToolCall(st, Opt(item, "tool"), Opt(item, "arguments"))
      [] item.type = "agent_message" ->
            HandleItemText(st, Opt(item, "text"), completed)
      [] OTHER -> st

\* handle_codex_event: st = [sid, file, acc, out] is the Codex session cell,
\* the Codex session file, the reader's accumulated text and the notifications.
HandleCodexEvent(st, ev) ==
    CASE ev.type = "thread.started" -> UpdateSession(st, Opt(ev, "thread_id"))
      [] ev.type \in {"item.started", "item.completed"} ->
            IF "item" \in DOMAIN ev
            THEN HandleItem(st, ev.item, ev.type = "item.completed")
            ELSE st
      [] ev.type = "turn.completed" ->
            [st EXCEPT !.out = Append(@, Note("agent-result",
                                    [success |-> TRUE, text |-> st.acc])),
                       !.acc = <<>>]
      [] ev.type = "turn.failed" ->
            [st EXCEPT !.out = Append(@, Note("agent-error",
                [error |-> IF "error" \in DOMAIN ev THEN ev.error ELSE <<"Turn failed">>]))]
      [] ev.type = "error" ->
            [st EXCEPT !.out = Append(@, Note("agent-error",
                [error |-> IF "message" \in DOMAIN ev THEN ev.message ELSE <<"Unknown error">>]))]
      [] OTHER -> st

\* ------------------------------------------- sidecar (per-query) events
\* json.get("type").and_then(as_str).unwrap_or("")
MsgType(line) == IF "type" \in DOMAIN line THEN line.type ELSE ""

\* The body of the sidecar stdout reader for one line that parsed as JSON:
\* st = [sid, file, slot, out]; result and error clear the retained handle.
HandleSidecarEvent(st, json) ==
    CASE MsgType(json) = "ready" -> st
      [] MsgType(json) = "stream" ->
            IF "text" \in DOMAIN json
            THEN [st EXCEPT !.out = Append(@, Note("agent-stream", [text |-> json.text]))]
            ELSE st
      [] MsgType(json) = "emotion" ->
            [st EXCEPT !.out = Append(@, Note("agent-emotion", [json |-> json]))]
      [] MsgType(json) = "walk_to_window" ->
            [st EXCEPT !.out = Append(@, Note("walk-to-window", [json |-> json]))]
      [] MsgType(json) = "move" ->
            [st EXCEPT !.out = Append(@, Note("clawd-move", [json |-> json]))]
      [] MsgType(json) = "result" ->
            LET s1 == UpdateSession(st, Opt(json, "sessionId"))
            IN  [s1 EXCEPT !.out = Append(@, Note("agent-result", [json |-> json])),
                           !.slot = None]
      [] MsgType(json) = "error" ->
            [st EXCEPT !.out = Append(@, Note("agent-error", [json |-> json])),
                       !.slot = None]
      [] MsgType(json) = "ask-question" ->
            [st EXCEPT !.out = Append(@, Note("agent-ask-question", [json |-> json]))]
      [] OTHER ->
            [st EXCEPT !.out = Append(@, Note("agent-raw", [json |-> json]))]


\* ------------------------------------------------------------------ state
VARIABLES
    build,                \* which variant runs: "cli" (Claude/Codex) or "sidecar"
    BACKEND_MODE,         \* state.rs BACKEND_MODE
    SESSION_ID,           \* state.rs SESSION_ID (Claude), Option
    CODEX_SESSION_ID,     \* state.rs CODEX_SESSION_ID, Option
    SESSION_FILE,         \* content of session.txt, Option
    CODEX_SESSION_FILE,   \* content of codex-session.txt, Option
    SIDECAR_CWD,          \* state.rs SIDECAR_CWD, Option
    RECENT_CWDS,          \* state.rs RECENT_CWDS
    CLAUDE_STDIN,         \* claude/runner.rs CLAUDE_STDIN: Option of a turn's handle
    CURRENT_QUERY_STDIN,  \* sidecar.rs CURRENT_QUERY_STDIN: Option of a turn's handle
    ACTIVE_SUBAGENTS,     \* claude/runner.rs ACTIVE_SUBAGENTS
    turns,                \* one record per spawned child process, in spawn order
    diag,                 \* the diagnostic sink fed by the stderr readers
    ret,                  \* the last command called and whether it returned Ok
    cwdFresh,             \* history: no child spawned since the last directory change
    TEMP_DIR,             \* the temp image files on disk (codex_runner.rs save_images_to_temp)
    SIDECAR_PROCESS,      \* lib.rs SIDECAR_PROCESS: Option of a child
    SIDECAR_STDIN,        \* lib.rs SIDECAR_STDIN: Option of a child's stdin handle
    threads,              \* per thread, the handler it runs and the step it is at
    locks,                \* per shared cell, the thread holding its mutex
    probe                 \* the input and the output of a command-line builder call

vars == <<build, BACKEND_MODE, SESSION_ID, CODEX_SESSION_ID, SESSION_FILE,
          CODEX_SESSION_FILE, SIDECAR_CWD, RECENT_CWDS, CLAUDE_STDIN,
          CURRENT_QUERY_STDIN, ACTIVE_SUBAGENTS, turns, diag, ret, cwdFresh,
          TEMP_DIR, SIDECAR_PROCESS, SIDECAR_STDIN, threads, locks, probe>>

sessionVars == <<SESSION_ID, CODEX_SESSION_ID, SESSION_FILE, CODEX_SESSION_FILE>>
cwdVars == <<SIDECAR_CWD, RECENT_CWDS, cwdFresh>>
handleVars == <<CLAUDE_STDIN, CURRENT_QUERY_STDIN>>
libVars == <<SIDECAR_PROCESS, SIDECAR_STDIN>>
lockVars == <<threads, locks>>
otherVars == <<libVars, lockVars, probe>>

Turns == DOMAIN turns

RECURSIVE SumLines(_)
SumLines(n) == IF n = 0 THEN 0 ELSE Len(turns[n].lines) + SumLines(n - 1)
TotalLines == SumLines(Len(turns))

RECURSIVE SumReplies(_)
SumReplies(n) ==
    IF n = 0 THEN 0
    ELSE Cardinality({i \in DOMAIN turns[n].stdin : turns[n].stdin[i].kind # "initial"})
         + SumReplies(n - 1)
TotalReplies == SumReplies(Len(turns))

Ok(op) == [op |-> op, ok |-> TRUE]
Err(op) == [op |-> op, ok |-> FALSE]

\* The threads whose lock discipline is followed, and the shared cells.
Workers == {"w1", "w2"}
Cells == {"CLAUDE_STDIN", "CURRENT_QUERY_STDIN", "SESSION_ID", "SIDECAR_CWD",
          "RECENT_CWDS", "ACTIVE_SUBAGENTS", "DEV_MODE", "SIDECAR_PROCESS",
          "SIDECAR_STDIN"}
Idle == [op |-> "idle", pc |-> 0]
NoProbe == [fn |-> "none"]

\* The cells, files and processes after construction.
LoadedSession(file) == file

\* The session cell at process start: the static initializer, whatever the
\* session file left by an earlier run holds (run() does not load it).
ColdSession(file) == None

\* Every cell but the session ones, as the static initializers leave it.
InitRest ==
    /\ build \in Builds
    /\ BACKEND_MODE = "claude"
    /\ SIDECAR_CWD = None
    /\ RECENT_CWDS = <<>>
    /\ CLAUDE_STDIN = None
    /\ CURRENT_QUERY_STDIN = None
    /\ ACTIVE_SUBAGENTS = <<>>
    /\ turns = <<>>
    /\ diag = <<>>
    /\ ret = Ok("init")
    /\ cwdFresh = FALSE
    /\ TEMP_DIR = {}
    /\ SIDECAR_PROCESS = None
    /\ SIDECAR_STDIN = None
    /\ threads = [w \in Workers |-> Idle]
    /\ locks = [c \in Cells |-> None]

\* First launch: no session file exists yet.
InitCells ==
    /\ InitRest
    /\ SESSION_FILE = None
    /\ CODEX_SESSION_FILE = None
    /\ SESSION_ID = ColdSession(SESSION_FILE)
    /\ CODEX_SESSION_ID = ColdSession(CODEX_SESSION_FILE)

Init == InitCells /\ probe = NoProbe

\* ---------------------------------------------------------- spawning
\* with_session_resume(session_id.as_ref()): the resume tokens of the child.
ResumeTokens(session_id) == session_id

\* The record of a freshly spawned child. pc is the stdout reader's position:
\* "reading", "waiting" (child.wait()), "done", or "aborted" when run_query
\* returned an error after the spawn and no reader thread exists.
NewTurn(kind, pc, resume, stdin) ==
    [kind |-> kind, pc |-> pc, child |-> "alive", resume |-> resume,
     cwd |-> SIDECAR_CWD, fresh |-> cwdFresh, lines |-> <<>>, emitted |-> <<>>,
     stdin |-> stdin, waitErr |-> FALSE, acc |-> <<>>, images |-> {}]

InitialMessage == [kind |-> "initial"]

\* claude::run_query. outcome: write_mcp_config fails, spawn fails, or the child
\* is spawned; stdinCaptured / stdoutCaptured: child.stdin.take() /
\* child.stdout.take() yield Some.
ClaudeRunQuery(outcome, stdinCaptured, stdoutCaptured) ==
    /\ Len(turns) < MaxTurns
    /\ IF outcome # "spawned"
       THEN /\ ret' = Err("send_agent_message")
            /\ UNCHANGED <<turns, CLAUDE_STDIN, cwdFresh>>
       ELSE /\ turns' = Append(turns,
                  NewTurn("claude",
                          IF stdoutCaptured THEN "reading" ELSE "aborted",
                          ResumeTokens(SESSION_ID),
                          IF stdinCaptured THEN <<InitialMessage>> ELSE <<>>))
            /\ CLAUDE_STDIN' = IF stdinCaptured THEN Some(Len(turns) + 1)
                               ELSE CLAUDE_STDIN
            /\ ret' = IF stdoutCaptured THEN Ok("send_agent_message")
                      ELSE Err("send_agent_message")
            /\ cwdFresh' = FALSE
    /\ UNCHANGED <<otherVars, TEMP_DIR, build, BACKEND_MODE, sessionVars, SIDECAR_CWD, RECENT_CWDS,
                   CURRENT_QUERY_STDIN, ACTIVE_SUBAGENTS, diag>>

\* An image of a request: the extension its data URL names, whether its
\* base64 decodes, and whether fs::write of its temp file succeeds.
Image(ext, decodes, writes) == [ext |-> ext, decodes |-> decodes, writes |-> writes]

\* temp_dir().join(format!("mascot-codex-image-{}-{}.{}", process::id(), i, ext)):
\* the process id is the application's, the same for every turn.
TempPath(i, ext) == [i |-> i, ext |-> ext]

\* save_images_to_temp: the images are decoded and written in order; the
\* first failure ends the iteration with Err, the files written so far stay.
\* The result is [ok, paths]: paths are the files written, in order.
RECURSIVE SaveFrom(_, _, _)
SaveFrom(images, i, paths) ==
    IF i > Len(images) THEN [ok |-> TRUE, paths |-> paths]
    ELSE IF ~images[i].decodes \/ ~images[i].writes
    THEN [ok |-> FALSE, paths |-> paths]
    ELSE SaveFrom(images, i + 1, Append(paths, TempPath(i - 1, images[i].ext)))

SaveImagesToTemp(images) == SaveFrom(images, 1, <<>>)

Range(seq) == {seq[i] : i \in DOMAIN seq}

\* codex::run_query. outcome: executable not found, MCP config not written,
\* spawn fails, or the child is spawned. Codex children get no piped stdin.
\* The images are saved after the config is written and before the spawn.
CodexRunQuery(images, outcome, stdoutCaptured) ==
    LET saved == SaveImagesToTemp(images)
    IN
    /\ Len(turns) < MaxTurns
    /\ IF outcome \in {"no_exe", "config_err"}
       THEN /\ ret' = Err("send_agent_message")
            /\ UNCHANGED <<turns, cwdFresh, TEMP_DIR>>
       ELSE IF ~saved.ok \/ outcome = "spawn_err"
       THEN /\ TEMP_DIR' = TEMP_DIR \cup Range(saved.paths)
            /\ ret' = Err("send_agent_message")
            /\ UNCHANGED <<turns, cwdFresh>>
       ELSE /\ TEMP_DIR' = TEMP_DIR \cup Range(saved.paths)
            /\ turns' = Append(turns,
                  [NewTurn("codex",
                           IF stdoutCaptured THEN "reading" ELSE "aborted",
                           ResumeTokens(CODEX_SESSION_ID), <<>>)
                       EXCEPT !.images = Range(saved.paths)])
            /\ ret' = IF stdoutCaptured THEN Ok("send_agent_message")
                      ELSE Err("send_agent_message")
            /\ cwdFresh' = FALSE
    /\ UNCHANGED <<otherVars, build, BACKEND_MODE, sessionVars, SIDECAR_CWD,
                   RECENT_CWDS, handleVars, ACTIVE_SUBAGENTS, diag>>

\* sidecar::run_query. outcome: node missing, script missing, spawn fails,
\* stdin not captured, the command write fails, or the command is written and
\* the handle stored; then stdout may fail to be captured.
SidecarRunQuery(outcome, stdoutCaptured) ==
    /\ Len(turns) < MaxTurns
    /\ IF outcome \in {"no_node", "no_script", "spawn_err"}
       THEN /\ ret' = Err("send_agent_message")
            /\ UNCHANGED <<turns, CURRENT_QUERY_STDIN, cwdFresh>>
       ELSE IF outcome \in {"no_stdin", "write_err"}
       THEN /\ turns' = Append(turns, NewTurn("sidecar", "aborted", None, <<>>))
            /\ ret' = Err("send_agent_message")
            /\ cwdFresh' = FALSE
            /\ UNCHANGED CURRENT_QUERY_STDIN
       ELSE /\ turns' = Append(turns,
                  NewTurn("sidecar",
                          IF stdoutCaptured THEN "reading" ELSE "aborted",
                          None, <<InitialMessage>>))
            /\ CURRENT_QUERY_STDIN' = Some(Len(turns) + 1)
            /\ ret' = IF stdoutCaptured THEN Ok("send_agent_message")
                      ELSE Err("send_agent_message")
            /\ cwdFresh' = FALSE
    /\ UNCHANGED <<otherVars, TEMP_DIR, build, BACKEND_MODE, sessionVars, SIDECAR_CWD, RECENT_CWDS,
                   CLAUDE_STDIN, ACTIVE_SUBAGENTS, diag>>

\* commands.rs send_agent_message: route to the backend BACKEND_MODE names.
\* The parameters are what the environment decides: whether the spawn and the
\* steps before it succeed, and whether the child's pipes are captured.
SendClaude(outcome, stdinCaptured, stdoutCaptured) ==
    /\ build = "cli" /\ BACKEND_MODE = "claude"
    /\ ClaudeRunQuery(outcome, stdinCaptured, stdoutCaptured)

SendCodexImages(images, outcome, stdoutCaptured) ==
    /\ build = "cli" /\ BACKEND_MODE = "codex"
    /\ CodexRunQuery(images, outcome, stdoutCaptured)

\* A request without images.
SendCodex(outcome, stdoutCaptured) == SendCodexImages(<<>>, outcome, stdoutCaptured)

SendSidecar(outcome, stdoutCaptured) ==
    /\ build = "sidecar"
    /\ SidecarRunQuery(outcome, stdoutCaptured)

\* The image lists of a request: one or two images, any of which may fail.
Images == {Image("png", d, w) : d, w \in BOOLEAN} \cup {Image("jpg", TRUE, TRUE)}
ImageRequests == {<<a>> : a \in Images} \cup {<<a, b>> : a, b \in Images}

ClaudeOutcomes == {"config_err", "spawn_err", "spawned"}
CodexOutcomes == {"no_exe", "config_err", "spawn_err", "spawned"}
SidecarOutcomes == {"no_node", "no_script", "spawn_err", "no_stdin", "write_err", "spawned"}


\* ------------------------------------------------- the children's output
SystemLine(sid) == [raw |-> "json", type |-> "system", session_id |-> sid]
TextLine(text) ==
    [raw |-> "json", type |-> "assistant",
     message |-> [content |-> <<[type |-> "text", text |-> text]>>]]
ToolLine(id, name, input) ==
    [raw |-> "json", type |-> "assistant",
     message |-> [content |-> <<[type |-> "tool_use", id |-> id, name |-> name,
                                 input |-> input]>>]]
ResultLine(subtype, text, sid) ==
    [raw |-> "json", type |-> "result", subtype |-> subtype, result |-> text,
     session_id |-> sid]

\* Result lines with optional fields absent, and the Codex failure events.
ResultFailed == [raw |-> "json", type |-> "result", subtype |-> "error_during_execution"]
ResultBare == [raw |-> "json", type |-> "result", session_id |-> "s1"]
TurnFailed == [raw |-> "json", type |-> "turn.failed", error |-> <<"boom">>]
CodexError == [raw |-> "json", type |-> "error", message |-> <<"bad">>]

\* Tool invocations: arguments, and the names the mascot tools go by.
EmotionArgs == [raw |-> "obj", emotion |-> "happy"]
MoveArgs == [raw |-> "obj", target |-> "left"]
NoArgs == [raw |-> "obj"]
EmotionName == <<"mcp__mascot__", "set_emotion">>
MoveName == <<"move_to">>
ScreenshotName == <<"mcp__mascot__", "capture_screenshot">>
BothName == <<"set_emotion", "_then_", "move_to">>
OtherName == <<"Read">>
ToolNames == {EmotionName, MoveName, ScreenshotName, BothName, OtherName}

\* The arguments a child passes to a tool of that name.
ArgsOf(name) ==
    IF name = EmotionName THEN EmotionArgs
    ELSE IF name \in {MoveName, BothName} THEN MoveArgs ELSE NoArgs

ClaudeToolLines == {ToolLine("tu3", name, ArgsOf(name)) : name \in ToolNames}

\* The interactive tools of the Claude CLI.
InteractiveLines ==
    {ToolLine("tu1", <<"ExitPlanMode">>, NoArgs),
     ToolLine("tu1", <<"AskUserQuestion">>,
              [raw |-> "obj", questions |-> [valid |-> FALSE, items |-> <<>>]])}

\* A Codex item event about a tool call: Codex reports an item when it starts
\* and again when it completes, under the same item id (a field the event
\* schema does not declare, so that serde skips it).
CodexToolEvent(phase, id, name) ==
    [raw |-> "json", type |-> phase,
     item |-> [type |-> "tool_call", id |-> id, name |-> name,
               arguments |-> ArgsOf(name)]]
CodexMcpEvent(phase, id, name) ==
    [raw |-> "json", type |-> phase,
     item |-> [type |-> "mcp_tool_call", id |-> id, tool |-> name,
               arguments |-> ArgsOf(name)]]
ItemPhases == {"item.started", "item.completed"}
CodexToolLines ==
    {CodexToolEvent(phase, "i1", name) : phase \in ItemPhases, name \in ToolNames}
        \cup {CodexMcpEvent(phase, "i2", EmotionName) : phase \in ItemPhases}

\* The stdout lines a Claude child may write.
ClaudeLines ==
    {BlankLine, NonsenseLine, SystemLine("s1"), TextLine(Hi),
     ToolLine("tu1", <<"Task">>, [raw |-> "obj", description |-> DescAB]),
     ToolLine("tu2", <<"Task">>, [raw |-> "obj"]),
     ResultLine("success", Hi, "s1"), ResultFailed, ResultBare}
        \cup ClaudeToolLines \cup InteractiveLines

\* Codex items that carry text: an agent_message, or a message with one
\* output_text block per text.
AgentMessage(phase, text) ==
    [raw |-> "json", type |-> phase,
     item |-> [type |-> "agent_message", text |-> text]]

MessageItem(phase, texts) ==
    [raw |-> "json", type |-> phase,
     item |-> [type |-> "message",
               content |-> [i \in DOMAIN texts |->
                               [type |-> "output_text", text |-> texts[i]]]]]

TurnCompleted == [raw |-> "json", type |-> "turn.completed"]

TextAB == <<"a", "b">>
TextB == <<"b">>

CodexTextLines ==
    {AgentMessage("item.started", TextAB),
     AgentMessage("item.completed", TextAB),
     AgentMessage("item.completed", TextB),
     MessageItem("item.started", <<Hi, TextB>>),
     MessageItem("item.completed", <<Hi>>),
     TurnCompleted}

\* The stdout lines a Codex child may write.
CodexLines ==
    {BlankLine, NonsenseLine,
     [raw |-> "json", type |-> "thread.started", thread_id |-> "t1"],
     [raw |-> "json", type |-> "item.completed",
      item |-> [type |-> "agent_message", text |-> Hi]],
     [raw |-> "json", type |-> "turn.completed"],
     TurnFailed, CodexError}
        \cup CodexToolLines \cup CodexTextLines

\* The stdout lines a sidecar child may write.
SidecarLines ==
    {GarbageLine,
     [raw |-> "json", type |-> "stream", text |-> Hi],
     [raw |-> "json", type |-> "result", sessionId |-> "s1"],
     [raw |-> "json", type |-> "error"],
     [raw |-> "json", type |-> "weird"]}

LinesOf(kind) ==
    CASE kind = "claude" -> ClaudeLines
      [] kind = "codex" -> CodexLines
      [] OTHER -> SidecarLines

\* ------------------------------------------------------ stdout readers
\* Notifications carry where they came from: the stdout line they were derived
\* from, or the exit status observed after the read loop.
Tag(notes, src, k) ==
    [i \in DOMAIN notes |->
        [ev |-> notes[i].ev, data |-> notes[i].data, src |-> src, line |-> k]]

PublishFirst(log, notes) == notes \o log

\* app.emit: notifications reach the frontend in the order they are emitted.
Publish(log, notes) == log \o notes

PcAfterLineBreaking(line) == IF line.raw = "json" THEN "reading" ELSE "waiting"

\* Where the read loop stands after a line: every arm, the blank-line
\* `continue` and the parse-error arm included, goes on to the next line.
PcAfterLine(line) == "reading"

\* One iteration of the Claude stdout reader's loop.
ClaudeReadLine(t, line) ==
    LET st0 == [sid |-> SESSION_ID, file |-> SESSION_FILE,
                subs |-> ACTIVE_SUBAGENTS, out |-> <<>>]
        st1 == IF IsBlank(line) \/ ~ParsesAsStreamEvent(line) THEN st0
               ELSE HandleStreamEvent(st0, line)
    IN  /\ SESSION_ID' = st1.sid
        /\ SESSION_FILE' = st1.file
        /\ ACTIVE_SUBAGENTS' = st1.subs
        /\ turns' = [turns EXCEPT
              ![t].lines = Append(@, line),
              ![t].pc = PcAfterLine(line),
              ![t].emitted = Publish(@, Tag(st1.out, "stdout", Len(turns[t].lines) + 1))]
        /\ UNCHANGED <<CODEX_SESSION_ID, CODEX_SESSION_FILE, handleVars>>

\* One iteration of the Codex stdout reader's loop.
CodexReadLine(t, line) ==
    LET st0 == [sid |-> CODEX_SESSION_ID, file |-> CODEX_SESSION_FILE,
                acc |-> turns[t].acc, out |-> <<>>]
        st1 == IF IsBlank(line) \/ ~ParsesAsCodexEvent(line) THEN st0
               ELSE HandleCodexEvent(st0, line)
    IN  /\ CODEX_SESSION_ID' = st1.sid
        /\ CODEX_SESSION_FILE' = st1.file
        /\ turns' = [turns EXCEPT
              ![t].lines = Append(@, line),
              ![t].pc = PcAfterLine(line),
              ![t].acc = st1.acc,
              ![t].emitted = Publish(@, Tag(st1.out, "stdout", Len(turns[t].lines) + 1))]
        /\ UNCHANGED <<SESSION_ID, SESSION_FILE, ACTIVE_SUBAGENTS, handleVars>>

\* One iteration of the sidecar stdout reader's loop.
SidecarReadLine(t, line) ==
    LET st0 == [sid |-> SESSION_ID, file |-> SESSION_FILE,
                slot |-> CURRENT_QUERY_STDIN, out |-> <<>>]
        st1 == IF IsBlank(line) \/ line.raw # "json" THEN st0
               ELSE HandleSidecarEvent(st0, line)
    IN  /\ SESSION_ID' = st1.sid
        /\ SESSION_FILE' = st1.file
        /\ CURRENT_QUERY_STDIN' = st1.slot
        /\ turns' = [turns EXCEPT
              ![t].lines = Append(@, line),
              ![t].pc = PcAfterLine(line),
              ![t].emitted = Publish(@, Tag(st1.out, "stdout", Len(turns[t].lines) + 1))]
        /\ UNCHANGED <<CODEX_SESSION_ID, CODEX_SESSION_FILE, ACTIVE_SUBAGENTS,
                       CLAUDE_STDIN>>

ReaderOfMode(t) == BACKEND_MODE

\* The reader thread of a turn is the closure its run_query spawned: it parses
\* with the schema of that backend, whatever BACKEND_MODE is by then.
ReaderKind(t) == turns[t].kind

ReadLine(t, line) ==
    /\ turns[t].pc = "reading"
    /\ TotalLines < MaxLines
    /\ line \in LinesOf(ReaderKind(t))
    /\ CASE ReaderKind(t) = "claude" -> ClaudeReadLine(t, line)
         [] ReaderKind(t) = "codex" -> CodexReadLine(t, line)
         [] OTHER -> SidecarReadLine(t, line)
    /\ UNCHANGED <<otherVars, TEMP_DIR, build, BACKEND_MODE, cwdVars, diag, ret>>

\* stdout reaches end-of-input. Claude and Codex readers go on to child.wait();
\* the sidecar reader clears the retained handle and ends.
ReadEof(t) ==
    /\ turns[t].pc = "reading"
    /\ IF turns[t].kind = "sidecar"
       THEN /\ turns' = [turns EXCEPT ![t].pc = "done"]
            /\ CURRENT_QUERY_STDIN' = None
       ELSE /\ turns' = [turns EXCEPT ![t].pc = "waiting"]
            /\ UNCHANGED CURRENT_QUERY_STDIN
    /\ UNCHANGED <<otherVars, TEMP_DIR, build, BACKEND_MODE, sessionVars, cwdVars, CLAUDE_STDIN,
                   ACTIVE_SUBAGENTS, diag, ret>>

\* A read of stdout fails. Claude and Codex readers break out of the loop;
\* the sidecar reader skips the failed read and keeps reading.
StdoutReadError(t) ==
    /\ turns[t].pc = "reading"
    /\ turns' = [turns EXCEPT ![t].pc = IF turns[t].kind = "sidecar"
                                        THEN "reading" ELSE "waiting"]
    /\ UNCHANGED <<otherVars, TEMP_DIR, build, BACKEND_MODE, sessionVars, cwdVars, handleVars,
                   ACTIVE_SUBAGENTS, diag, ret>>

\* The child process ends with an exit status.
ChildExit(t, status) ==
    /\ turns[t].child = "alive"
    /\ turns' = [turns EXCEPT ![t].child = status]
    /\ UNCHANGED <<otherVars, TEMP_DIR, build, BACKEND_MODE, sessionVars, cwdVars, handleVars,
                   ACTIVE_SUBAGENTS, diag, ret>>

ExitNotesAnyStatus(waitOk, status) ==
    <<Note("agent-error", [error |-> <<"exited with status", status>>])>>

\* The notifications of the match on child.wait(): waitOk is Ok(status).
ExitNotes(waitOk, status) ==
    IF ~waitOk
    THEN <<Note("agent-error", [error |-> <<"Failed to wait">>])>>
    ELSE IF status # "exit0"
    THEN <<Note("agent-error", [error |-> <<"exited with status", status>>])>>
    ELSE <<>>

\* child.wait() returns: the exit-status notification, then the cleanup of
\* the retained handle (Claude) or of the turn's temp images (Codex).
WaitChild(t, waitOk) ==
    /\ turns[t].pc = "waiting"
    /\ waitOk => turns[t].child # "alive"
    /\ turns' = [turns EXCEPT
          ![t].pc = "done",
          ![t].waitErr = ~waitOk,
          ![t].emitted = Publish(@, Tag(ExitNotes(waitOk, turns[t].child), "exit", 0))]
    /\ CLAUDE_STDIN' = IF turns[t].kind = "claude" THEN None ELSE CLAUDE_STDIN
    /\ TEMP_DIR' = IF turns[t].kind = "codex" THEN TEMP_DIR \ turns[t].images
                   ELSE TEMP_DIR
    /\ UNCHANGED <<otherVars, build, BACKEND_MODE, sessionVars, cwdVars, CURRENT_QUERY_STDIN,
                   ACTIVE_SUBAGENTS, diag, ret>>

\* One iteration of a stderr reader: the line goes to the diagnostic sink only.
ReadStderr(t) ==
    /\ turns[t].pc # "aborted"
    /\ Len(diag) < MaxStderr
    /\ diag' = Append(diag, [turn |-> t, kind |-> turns[t].kind])
    /\ UNCHANGED <<otherVars, TEMP_DIR, build, BACKEND_MODE, sessionVars, cwdVars, handleVars,
                   ACTIVE_SUBAGENTS, turns, ret>>


\* ------------------------------------------------------ reply injection
ToolUseIds == {"tu1"}

\* The user message send_tool_result builds around one tool_result block.
ToolResultMessage(tool_use_id, content, is_error) ==
    [kind |-> "user",
     content |-> <<IF is_error
                   THEN [type |-> "tool_result", tool_use_id |-> tool_use_id,
                         content |-> content, is_error |-> TRUE]
                   ELSE [type |-> "tool_result", tool_use_id |-> tool_use_id,
                         content |-> content]>>]

\* The user message send_ask_user_question_result builds: the tool_result
\* block, a text block of the same content, and the structured toolUseResult.
AskResultMessage(tool_use_id, content, tool_use_result) ==
    [kind |-> "user",
     content |-> <<[type |-> "tool_result", tool_use_id |-> tool_use_id,
                    content |-> content],
                   [type |-> "text", text |-> content]>>,
     toolUseResult |-> tool_use_result]

\* Writing msg, a newline and a flush to the handle retained in `slot`:
\* without a handle the caller gets an error and nothing is written; the
\* write itself fails once the child at the other end of the pipe is gone.
WriteToSlotAccepts(slot, msg, op) ==
    IF ~IsSome(slot)
    THEN /\ ret' = Ok(op)
         /\ UNCHANGED turns
    ELSE /\ TotalReplies < MaxReplies
         /\ turns' = [turns EXCEPT ![Unwrap(slot)].stdin = Append(@, msg)]
         /\ ret' = Ok(op)

WriteToSlot(slot, msg, op) ==
    IF ~IsSome(slot)
    THEN /\ ret' = Err(op)
         /\ UNCHANGED turns
    ELSE IF turns[Unwrap(slot)].child # "alive"
    THEN /\ ret' = Err(op)
         /\ UNCHANGED turns
    ELSE /\ TotalReplies < MaxReplies
         /\ turns' = [turns EXCEPT ![Unwrap(slot)].stdin = Append(@, msg)]
         /\ ret' = Ok(op)

replyFrame == <<otherVars, TEMP_DIR, build, BACKEND_MODE, sessionVars, cwdVars, handleVars,
                ACTIVE_SUBAGENTS, diag>>

\* send_tool_result
SendToolResult(tool_use_id, content, is_error, op) ==
    /\ WriteToSlot(CLAUDE_STDIN, ToolResultMessage(tool_use_id, content, is_error), op)
    /\ UNCHANGED replyFrame

ConfirmExitPlanMode(tool_use_id) ==
    SendToolResult(tool_use_id, <<"Plan mode exited.">>, FALSE, "confirm_exit_plan_mode")

DenyExitPlanMode(tool_use_id, reason) ==
    SendToolResult(tool_use_id, reason, TRUE, "deny_exit_plan_mode")

\* respond_to_ask_user_question: questions_json that does not parse returns an
\* error before the handle is looked at.
RespondToAskUserQuestion(tool_use_id, questionsParse, answers) ==
    /\ IF ~questionsParse
       THEN /\ ret' = Err("respond_to_ask_user_question")
            /\ UNCHANGED turns
       ELSE WriteToSlot(CLAUDE_STDIN,
                AskResultMessage(tool_use_id, <<"answered", answers>>,
                                 [questions |-> "questions", answers |-> answers]),
                "respond_to_ask_user_question")
    /\ UNCHANGED replyFrame

\* sidecar::send_to_current_query
SendToCurrentQuery(cmd) ==
    /\ WriteToSlot(CURRENT_QUERY_STDIN, [kind |-> "command", cmd |-> cmd],
                   "send_to_current_query")
    /\ UNCHANGED replyFrame

\* ------------------------------------------------------------ commands
ClaudeClearSessionKeeps(sid) == sid

\* claude::clear_session: the value SESSION_ID is left with.
ClaudeClearSession(sid) == None

CodexClearSessionKeeps(sid) == sid

\* codex::clear_session: the value CODEX_SESSION_ID is left with.
CodexClearSession(sid) == None

InsertRecentKeepsOld(recent, path) ==
    LET inserted == <<path>> \o recent
    IN  IF Len(inserted) > MAX_RECENT_CWDS
        THEN SubSeq(inserted, 1, MAX_RECENT_CWDS)
        ELSE inserted

\* recent.retain(|p| p != &path); recent.insert(0, path); truncate to the maximum
InsertRecent(recent, path) ==
    LET keep(p) == p # path
        inserted == <<path>> \o SelectSeq(recent, keep)
    IN  IF Len(inserted) > MAX_RECENT_CWDS
        THEN SubSeq(inserted, 1, MAX_RECENT_CWDS)
        ELSE inserted

IsDirAlways(path) == TRUE

\* Path::new(&path).is_dir()
IsDir(path) == path \in Paths

\* commands.rs set_sidecar_cwd
SetSidecarCwd(path) ==
    /\ IF ~IsDir(path)
       THEN /\ ret' = Err("set_sidecar_cwd")
            /\ UNCHANGED <<SIDECAR_CWD, RECENT_CWDS, SESSION_ID, CODEX_SESSION_ID,
                           cwdFresh>>
       ELSE /\ RECENT_CWDS' = InsertRecent(RECENT_CWDS, path)
            /\ SIDECAR_CWD' = Some(path)
            /\ SESSION_ID' = ClaudeClearSession(SESSION_ID)
            /\ CODEX_SESSION_ID' = CodexClearSession(CODEX_SESSION_ID)
            /\ cwdFresh' = TRUE
            /\ ret' = Ok("set_sidecar_cwd")
    /\ UNCHANGED <<otherVars, TEMP_DIR, build, BACKEND_MODE, SESSION_FILE, CODEX_SESSION_FILE,
                   handleVars, ACTIVE_SUBAGENTS, turns, diag>>

\* commands.rs clear_agent_session: clears the active backend's session.
ClearAgentSession ==
    /\ IF BACKEND_MODE = "claude"
       THEN /\ SESSION_ID' = ClaudeClearSession(SESSION_ID)
            /\ UNCHANGED CODEX_SESSION_ID
       ELSE /\ CODEX_SESSION_ID' = CodexClearSession(CODEX_SESSION_ID)
            /\ UNCHANGED SESSION_ID
    /\ ret' = Ok("clear_agent_session")
    /\ UNCHANGED <<otherVars, TEMP_DIR, build, BACKEND_MODE, SESSION_FILE, CODEX_SESSION_FILE, cwdVars,
                   handleVars, ACTIVE_SUBAGENTS, turns, diag>>

\* commands.rs clear_claude_session_cmd
ClearClaudeSessionCmd ==
    /\ SESSION_ID' = ClaudeClearSession(SESSION_ID)
    /\ ret' = Ok("clear_claude_session_cmd")
    /\ UNCHANGED <<otherVars, TEMP_DIR, build, BACKEND_MODE, CODEX_SESSION_ID, SESSION_FILE,
                   CODEX_SESSION_FILE, cwdVars, handleVars, ACTIVE_SUBAGENTS,
                   turns, diag>>

\* commands.rs clear_codex_session_cmd
ClearCodexSessionCmd ==
    /\ CODEX_SESSION_ID' = CodexClearSession(CODEX_SESSION_ID)
    /\ ret' = Ok("clear_codex_session_cmd")
    /\ UNCHANGED <<otherVars, TEMP_DIR, build, BACKEND_MODE, SESSION_ID, SESSION_FILE,
                   CODEX_SESSION_FILE, cwdVars, handleVars, ACTIVE_SUBAGENTS,
                   turns, diag>>

\* commands.rs set_backend_mode
SetBackendMode(mode) ==
    /\ IF mode \in {"claude", "codex"}
       THEN /\ BACKEND_MODE' = mode
            /\ ret' = Ok("set_backend_mode")
       ELSE /\ ret' = Err("set_backend_mode")
            /\ UNCHANGED BACKEND_MODE
    /\ UNCHANGED <<otherVars, TEMP_DIR, build, sessionVars, cwdVars, handleVars, ACTIVE_SUBAGENTS,
                   turns, diag>>


StopSidecarKilling ==
    /\ turns' = [t \in DOMAIN turns |->
                    IF turns[t].child = "alive"
                    THEN [turns[t] EXCEPT !.child = "exit1"] ELSE turns[t]]
    /\ CLAUDE_STDIN' = None
    /\ CURRENT_QUERY_STDIN' = None
    /\ ret' = Ok("stop_sidecar")
    /\ UNCHANGED <<otherVars, TEMP_DIR, build, BACKEND_MODE, sessionVars, cwdVars,
                   ACTIVE_SUBAGENTS, diag>>

\* commands.rs stop_sidecar: no action is taken in CLI mode.
StopSidecar ==
    /\ ret' = Ok("stop_sidecar")
    /\ UNCHANGED <<otherVars, TEMP_DIR, build, BACKEND_MODE, sessionVars, cwdVars, handleVars,
                   ACTIVE_SUBAGENTS, turns, diag>>

\* commands.rs answer_agent_question: the three arguments are unused and the
\* command returns its error without looking at the retained handle.
AnswerAgentQuestion(question_id, questionsParse, answers) ==
    /\ ret' = Err("answer_agent_question")
    /\ UNCHANGED <<otherVars, TEMP_DIR, build, BACKEND_MODE, sessionVars, cwdVars, handleVars,
                   ACTIVE_SUBAGENTS, turns, diag>>

\* =================================================================== views
\* The full next-state relation is too large to enumerate with every input at
\* once. Each view below keeps every action that reads or writes the cells its
\* properties speak of, and draws the environment's inputs (spawn outcomes,
\* the children's output) from the values those properties are about.

InitCli == Init /\ build = "cli"

\* ------------------------------------------------ view: process lifecycle
LifeLines ==
    {ResultLine("success", Hi, "s1"),
     [raw |-> "json", type |-> "turn.completed"],
     [raw |-> "json", type |-> "result", sessionId |-> "s1"],
     [raw |-> "json", type |-> "error"]}

NextLife ==
    \/ \E outcome \in ClaudeOutcomes : \E si, so \in BOOLEAN : SendClaude(outcome, si, so)
    \/ \E outcome \in CodexOutcomes : \E so \in BOOLEAN : SendCodex(outcome, so)
    \/ \E outcome \in SidecarOutcomes : \E so \in BOOLEAN : SendSidecar(outcome, so)
    \/ \E mode \in {"claude", "codex"} : SetBackendMode(mode)
    \/ \E t \in Turns : \E line \in LifeLines : ReadLine(t, line)
    \/ \E t \in Turns : ReadEof(t)
    \/ \E t \in Turns : StdoutReadError(t)
    \/ \E t \in Turns : \E status \in {"exit0", "exit1"} : ChildExit(t, status)
    \/ \E t \in Turns : \E waitOk \in BOOLEAN : WaitChild(t, waitOk)

SpecLife == Init /\ [][NextLife]_vars

ExitLines ==
    {ResultLine("success", Hi, "s1"),
     [raw |-> "json", type |-> "turn.failed", error |-> <<"boom">>]}

NextExit ==
    \/ SendClaude("spawned", TRUE, TRUE)
    \/ SendCodex("spawned", TRUE)
    \/ SetBackendMode("codex")
    \/ \E t \in Turns : \E line \in ExitLines : ReadLine(t, line)
    \/ \E t \in Turns : ReadEof(t)
    \/ \E t \in Turns : \E status \in {"exit0", "exit1"} : ChildExit(t, status)
    \/ \E t \in Turns : \E waitOk \in BOOLEAN : WaitChild(t, waitOk)

SpecExit == InitCli /\ [][NextExit]_vars


\* C1: at most one external child process is alive at any time: no second
\* child is spawned while a previously spawned child has not yet exited.
AtMostOneChildAlive ==
    Cardinality({t \in Turns : turns[t].child = "alive"}) <= 1

\* The notifications of turn t that came from the match on child.wait().
ExitDerived(t) ==
    SelectSeq(turns[t].emitted, LAMBDA n : n.src = "exit")

\* C7: the reader of a Claude or Codex child ends only once the child's exit
\* status is available (or waiting failed); if the exit is non-zero or waiting
\* fails and no agent-error was emitted from the turn's stdout, exactly one
\* agent-error is emitted from the exit, naming the status, and it comes after
\* every stdout-derived notification of the turn; a zero exit emits none, and
\* nothing exit-derived is emitted before the reader has ended.
ExitStatusErrors ==
    \A t \in Turns :
        LET e == turns[t].emitted
            x == ExitDerived(t)
            failed == turns[t].waitErr \/ turns[t].child = "exit1"
            explained == \E i \in DOMAIN e :
                            e[i].src = "stdout" /\ e[i].ev = "agent-error"
        IN  turns[t].kind \in {"claude", "codex"} =>
              /\ turns[t].pc # "done" => x = <<>>
              /\ turns[t].pc = "done" =>
                    /\ ~turns[t].waitErr => turns[t].child # "alive"
                    /\ ~failed => x = <<>>
                    /\ (failed /\ ~explained) =>
                          /\ Len(x) = 1
                          /\ x[1].ev = "agent-error"
                          /\ ~turns[t].waitErr =>
                                x[1].data.error = <<"exited with status", turns[t].child>>
                          /\ e[Len(e)] = x[1]
                          /\ \A i \in 1..(Len(e) - 1) : e[i].src = "stdout"

\* C7 happens: a Claude child wrote its result line and exited with a
\* non-zero status; the turn's notifications are the result and then the
\* exit error.
NonZeroExitAfterResult ==
    \E t \in Turns :
        /\ turns[t].kind = "claude" /\ turns[t].pc = "done"
        /\ turns[t].child = "exit1" /\ ~turns[t].waitErr
        /\ Len(turns[t].lines) = 1
        /\ Len(turns[t].emitted) = 2
        /\ turns[t].emitted[1].ev = "agent-result"
        /\ turns[t].emitted[2].ev = "agent-error"
        /\ turns[t].emitted[2].src = "exit"


\* ------------------------------------------------- view: reply injection
\* The handle slots are written by the spawn and by the end of a reader, and
\* read by the reply commands.
NextReply ==
    \/ \E si \in BOOLEAN : SendClaude("spawned", si, TRUE)
    \/ SendSidecar("spawned", TRUE)
    \/ \E t \in Turns : ReadEof(t)
    \/ \E t \in Turns : ChildExit(t, "exit0")
    \/ \E t \in Turns : \E waitOk \in BOOLEAN : WaitChild(t, waitOk)
    \/ \E id \in ToolUseIds : ConfirmExitPlanMode(id)
    \/ \E id \in ToolUseIds : DenyExitPlanMode(id, <<"no">>)
    \/ \E id \in ToolUseIds : \E parses \in BOOLEAN :
          RespondToAskUserQuestion(id, parses, <<<<"q", "a">>>>)
    \/ SendToCurrentQuery("answer")

SpecReply == Init /\ [][NextReply]_vars

\* C2: whenever the retained stdin-handle slot is empty, each of
\* confirm_exit_plan_mode, deny_exit_plan_mode, respond_to_ask_user_question
\* and send_to_current_query returns an error, writes nothing to any process
\* (no child's stdin grows) and leaves the handle slots, the session ids and
\* the subagent set unchanged.
ReplyWithoutHandleFails ==
    [][ /\ ( /\ CLAUDE_STDIN = None
             /\ \E id \in ToolUseIds :
                   \/ ConfirmExitPlanMode(id)
                   \/ DenyExitPlanMode(id, <<"no">>)
                   \/ \E parses \in BOOLEAN :
                         RespondToAskUserQuestion(id, parses, <<<<"q", "a">>>>) )
           => /\ ~ret'.ok
              /\ UNCHANGED <<turns, handleVars, sessionVars, ACTIVE_SUBAGENTS>>
        /\ (CURRENT_QUERY_STDIN = None /\ SendToCurrentQuery("answer"))
           => /\ ~ret'.ok
              /\ UNCHANGED <<turns, handleVars, sessionVars, ACTIVE_SUBAGENTS>>
      ]_vars

\* C2 happens: a reply command has just returned an error although every child
\* spawned so far is still alive, so the error came from the empty slot; the
\* handle of each child was stored at its spawn and cleared when its reader
\* ended.
ReplyRefusedAfterTurn ==
    /\ ret \in {Err("deny_exit_plan_mode"), Err("send_to_current_query")}
    /\ turns # <<>>
    /\ \A t \in Turns :
          /\ turns[t].child = "alive" /\ turns[t].pc = "done"
          /\ turns[t].stdin = <<InitialMessage>>
    /\ CLAUDE_STDIN = None /\ CURRENT_QUERY_STDIN = None


\* ------------------------------------------- view: order of notifications
\* The reader threads alone: lines that produce notifications, and stderr.
OrderLines ==
    {ToolLine("tu1", <<"Task">>, [raw |-> "obj", description |-> DescAB]),
     ResultLine("success", Hi, "s1"),
     [raw |-> "json", type |-> "item.completed",
      item |-> [type |-> "agent_message", text |-> Hi]],
     [raw |-> "json", type |-> "turn.failed", error |-> <<"boom">>]}

NextOrder ==
    \/ SendClaude("spawned", TRUE, TRUE)
    \/ SendCodex("spawned", TRUE)
    \/ \E mode \in {"claude", "codex"} : SetBackendMode(mode)
    \/ \E t \in Turns : \E line \in OrderLines : ReadLine(t, line)
    \/ \E t \in Turns : ReadStderr(t)

SpecOrder == InitCli /\ [][NextOrder]_vars

\* The notifications of turn t that were derived from stdout lines.
StdoutNotes(t) ==
    SelectSeq(turns[t].emitted, LAMBDA n : n.src = "stdout")

\* Turn t's notifications appear in the order of the lines they came from.
InLineOrder(t) ==
    LET e == StdoutNotes(t)
    IN  \A i, j \in DOMAIN e : i < j => e[i].line <= e[j].line

\* C4: for any two stdout lines L1, L2 of the same child with L1 read before
\* L2, every notification derived from L1 is emitted before every notification
\* derived from L2 (Claude and Codex readers); a stderr line produces no
\* frontend notification.
EventOrderPreserved ==
    /\ [](\A t \in Turns : InLineOrder(t))
    /\ [][diag' # diag => turns' = turns]_vars

\* C4 happens: a Claude child wrote a Task line and then a result line, each
\* of which produced two notifications, and one of its stderr lines was read.
TwoLinesFourNotes ==
    \E t \in Turns :
        /\ turns[t].kind = "claude"
        /\ Len(turns[t].lines) = 2
        /\ Len(turns[t].emitted) = 4
        /\ turns[t].emitted[1].line = 1 /\ turns[t].emitted[2].line = 1
        /\ turns[t].emitted[3].line = 2 /\ turns[t].emitted[4].line = 2
        /\ turns[t].emitted[4].ev = "agent-result"
        /\ diag # <<>> /\ diag[1].turn = t

\* ------------------------------------------------ view: the read loops
\* The stdout read loops alone: malformed lines among lines that change the
\* shared cells and produce notifications.
StreamLines ==
    {BlankLine, NonsenseLine,
     ToolLine("tu1", <<"Task">>, [raw |-> "obj", description |-> DescAB]),
     [raw |-> "json", type |-> "item.completed",
      item |-> [type |-> "agent_message", text |-> Hi]]}

NextStream ==
    \/ SendClaude("spawned", TRUE, TRUE)
    \/ SendCodex("spawned", TRUE)
    \/ \E mode \in {"claude", "codex"} : SetBackendMode(mode)
    \/ \E t \in Turns : \E line \in StreamLines : ReadLine(t, line)

SpecStream == InitCli /\ [][NextStream]_vars

\* A line the reader of a `kind` child discards: blank, or not an event of the
\* backend's tagged schema.
Malformed(kind, line) ==
    \/ IsBlank(line)
    \/ kind = "claude" /\ ~ParsesAsStreamEvent(line)
    \/ kind = "codex" /\ ~ParsesAsCodexEvent(line)

\* C5: reading a blank line, or a line that does not parse as the backend's
\* event schema, emits no notification and changes no state (only the stream
\* position advances), and the reader stays in its loop, so every later line
\* is read and handled from the same state as if the line had not been there.
MalformedLineIsSkipped ==
    [][\A t \in Turns :
          ( /\ turns[t].kind \in {"claude", "codex"}
            /\ Len(turns'[t].lines) = Len(turns[t].lines) + 1
            /\ Malformed(turns[t].kind, turns'[t].lines[Len(turns'[t].lines)]) )
          => /\ turns' = [turns EXCEPT ![t].lines = turns'[t].lines]
             /\ turns'[t].pc = "reading"
             /\ UNCHANGED <<otherVars, TEMP_DIR, build, BACKEND_MODE, sessionVars, cwdVars, handleVars,
                            ACTIVE_SUBAGENTS, diag, ret>>
      ]_vars

\* C5 happens: a Codex child wrote a blank line, then {"type":"nonsense"}, then
\* a completed agent message; only the last produced a notification.
LineAfterMalformedHandled ==
    \E t \in Turns :
        /\ turns[t].kind = "codex"
        /\ turns[t].lines =
              <<BlankLine, NonsenseLine,
                [raw |-> "json", type |-> "item.completed",
                 item |-> [type |-> "agent_message", text |-> Hi]]>>
        /\ Len(turns[t].emitted) = 1
        /\ turns[t].emitted[1].ev = "agent-stream"
        /\ turns[t].emitted[1].data = [text |-> Hi]
        /\ turns[t].emitted[1].line = 3
        /\ turns[t].pc = "reading"


\* ------------------------------------------------- view: Claude turns
\* Claude children only (the backend mode is never changed): text, Task and
\* result lines, and the ways a turn ends.
ClaudeTurnLines ==
    {TextLine(Hi),
     ToolLine("tu1", <<"Task">>, [raw |-> "obj", description |-> DescAB]),
     ResultLine("success", Hi, "s1")}

NextClaudeTurn ==
    \/ SendClaude("spawned", TRUE, TRUE)
    \/ \E t \in Turns : \E line \in ClaudeTurnLines : ReadLine(t, line)
    \/ \E t \in Turns : ReadEof(t)
    \/ \E t \in Turns : \E status \in {"exit0", "exit1"} : ChildExit(t, status)
    \/ \E t \in Turns : \E waitOk \in BOOLEAN : WaitChild(t, waitOk)

SpecClaudeTurn == InitCli /\ [][NextClaudeTurn]_vars

\* A notification as the frontend receives it: event name and payload.
Received(log) == [i \in DOMAIN log |-> Note(log[i].ev, log[i].data)]

\* C3: for a Claude child whose stdout is one assistant line with the single
\* text block "hi" followed by one result line (success, "hi", "s1") and which
\* then exits with status 0, the turn's notifications are exactly one
\* agent-stream carrying "hi" followed by one agent-result with success = true
\* and text = "hi", and the Claude session id is "s1".
EndToEndHi ==
    \A t \in Turns :
        ( /\ turns[t].kind = "claude"
          /\ turns[t].lines = <<TextLine(Hi), ResultLine("success", Hi, "s1")>>
          /\ turns[t].pc = "done"
          /\ turns[t].child = "exit0" /\ ~turns[t].waitErr )
        => /\ Received(turns[t].emitted) =
                <<Note("agent-stream", [text |-> Hi]),
                  Note("agent-result", [success |-> TRUE, text |-> Hi])>>
           /\ SESSION_ID = Some("s1")

\* The task ids carried by the notifications named ev in a log.
TaskIdsOf(log, ev) ==
    LET sel == SelectSeq(log, LAMBDA n : n.ev = ev)
    IN  [i \in DOMAIN sel |-> sel[i].data.task_id]

\* The position of the last result line of turn t before line k, or 0.
PrevResult(t, k) ==
    LET before == {j \in 1..(k - 1) : turns[t].lines[j].type = "result"}
    IN  IF before = {} THEN 0 ELSE CHOOSE j \in before : \A i \in before : i <= j

\* C8: if n subagent-start events occur in a turn before its result event,
\* exactly n subagent-end notifications are emitted when the result is handled,
\* in the order the subagents were started, each carrying the task id of its
\* start notification.
SubagentBulkFlush ==
    \A t \in Turns : \A k \in DOMAIN turns[t].lines :
        (turns[t].kind = "claude" /\ turns[t].lines[k].type = "result") =>
            LET e == turns[t].emitted
                started == SelectSeq(e, LAMBDA n : n.line > PrevResult(t, k) /\ n.line < k)
                flushed == SelectSeq(e, LAMBDA n : n.line = k)
            IN  TaskIdsOf(flushed, "subagent-end") = TaskIdsOf(started, "subagent-start")


\* ------------------------------------------------- view: session cells
\* Everything that reads or writes the session identifiers: spawning (reads
\* them for the resume tokens), the session-bearing events of children in
\* flight, the directory change and the clear commands.
SessionLines ==
    {SystemLine("s1"),
     [raw |-> "json", type |-> "thread.started", thread_id |-> "t1"]}

NextSession ==
    \/ SendClaude("spawned", TRUE, TRUE)
    \/ SendCodex("spawned", TRUE)
    \/ \E mode \in {"claude", "codex"} : SetBackendMode(mode)
    \/ \E t \in Turns : \E line \in SessionLines : ReadLine(t, line)
    \/ \E path \in {"p1", BadPath} : SetSidecarCwd(path)
    \/ ClearAgentSession
    \/ ClearClaudeSessionCmd
    \/ ClearCodexSessionCmd

SpecSession == InitCli /\ [][NextSession]_vars

\* C9: a successful set_sidecar_cwd leaves both the Claude and the Codex
\* session identifier empty, whichever backend is active and whether none,
\* one or both identifiers were set before the call.
SetCwdClearsBothSessions ==
    [][\A path \in Paths :
          SetSidecarCwd(path) => SESSION_ID' = None /\ CODEX_SESSION_ID' = None
      ]_vars

\* C9 happens: set_sidecar_cwd has just succeeded with Codex active, after both
\* backends had stored a session identifier (the session files still hold
\* them), and both identifiers are empty.
CwdSetAfterBothSessions ==
    /\ ret = Ok("set_sidecar_cwd")
    /\ BACKEND_MODE = "codex"
    /\ SESSION_FILE = Some("s1") /\ CODEX_SESSION_FILE = Some("t1")
    /\ SESSION_ID = None /\ CODEX_SESSION_ID = None
    /\ SIDECAR_CWD = Some("p1")

\* C10: the first turn spawned after a successful set_sidecar_cwd carries no
\* resume identifier, for either backend, however the directory change
\* interleaves with the session-bearing events of a turn still in flight.
FreshAfterCwdChange ==
    \A t \in Turns : turns[t].fresh => turns[t].resume = None

\* C12: set_sidecar_cwd with a path that does not exist or is not a directory
\* returns an error and leaves the working-directory override, the recent
\* list and both session identifiers unchanged.
BadPathChangesNothing ==
    [][\A path \in {"p1", BadPath} :
          (path \notin Paths /\ SetSidecarCwd(path)) =>
             /\ ~ret'.ok
             /\ UNCHANGED <<SIDECAR_CWD, RECENT_CWDS, SESSION_ID, CODEX_SESSION_ID>>
      ]_vars

\* C12 happens: set_sidecar_cwd has just been refused while a directory was
\* selected and both backends held a session identifier.
BadPathRefusedWithState ==
    /\ ret = Err("set_sidecar_cwd")
    /\ SIDECAR_CWD = Some("p1") /\ RECENT_CWDS = <<"p1">>
    /\ SESSION_ID = Some("s1") /\ CODEX_SESSION_ID = Some("t1")

\* ------------------------------------------- view: recent directories
\* set_sidecar_cwd alone, over six existing directories and one missing path.
NextCwd == \E path \in Paths \cup {BadPath} : SetSidecarCwd(path)

SpecCwd == InitCli /\ [][NextCwd]_vars

\* Sequence `list` without the entries equal to p.
Without(list, p) == SelectSeq(list, LAMBDA q : q # p)

\* C11: the recent-directories list has at most 5 entries and no path twice;
\* after a successful set_sidecar_cwd(p), p is at index 0 and occurs once, and
\* the other entries are the previous ones in their previous order (so the
\* list is most-recent-first); a sixth distinct path drops exactly the last,
\* least recently selected, entry.
RecentDirsInvariant ==
    /\ [](/\ Len(RECENT_CWDS) <= 5
          /\ \A i, j \in DOMAIN RECENT_CWDS : i # j => RECENT_CWDS[i] # RECENT_CWDS[j])
    /\ [][\A p \in Paths :
             SetSidecarCwd(p) =>
                LET old == Without(RECENT_CWDS, p)
                    new == RECENT_CWDS'
                IN  /\ new[1] = p
                    /\ Len(Without(new, p)) = Len(new) - 1
                    /\ Len(old) <= 4 => Tail(new) = old
                    /\ Len(old) = 5 => Tail(new) = SubSeq(old, 1, 4)
         ]_vars

\* C11 happens: five directories were listed and a sixth distinct one was
\* selected; the least recently selected one, p1, was dropped.
SixthPathDropsOldest ==
    /\ ret = Ok("set_sidecar_cwd")
    /\ RECENT_CWDS = <<"p6", "p5", "p4", "p3", "p2">>
    /\ SIDECAR_CWD = Some("p6")

\* C13: clear_session of either backend (through clear_claude_session_cmd,
\* clear_codex_session_cmd or clear_agent_session) leaves that backend's
\* in-memory identifier empty and touches nothing else: neither session file
\* is deleted or rewritten and the other backend's identifier is unchanged.
ClearSessionOnlyClearsItsCell ==
    [][/\ ClearClaudeSessionCmd =>
             /\ SESSION_ID' = None
             /\ UNCHANGED <<CODEX_SESSION_ID, SESSION_FILE, CODEX_SESSION_FILE>>
       /\ ClearCodexSessionCmd =>
             /\ CODEX_SESSION_ID' = None
             /\ UNCHANGED <<SESSION_ID, SESSION_FILE, CODEX_SESSION_FILE>>
       /\ (ClearAgentSession /\ BACKEND_MODE = "claude") =>
             /\ SESSION_ID' = None
             /\ UNCHANGED <<CODEX_SESSION_ID, SESSION_FILE, CODEX_SESSION_FILE>>
       /\ (ClearAgentSession /\ BACKEND_MODE = "codex") =>
             /\ CODEX_SESSION_ID' = None
             /\ UNCHANGED <<SESSION_ID, SESSION_FILE, CODEX_SESSION_FILE>>
      ]_vars

\* C13 happens: the Claude session was cleared after both backends had stored
\* an identifier; the session file still holds it and the Codex identifier is
\* still set.
ClaudeClearedCodexKept ==
    /\ ret = Ok("clear_claude_session_cmd")
    /\ SESSION_ID = None /\ SESSION_FILE = Some("s1")
    /\ CODEX_SESSION_ID = Some("t1") /\ CODEX_SESSION_FILE = Some("t1")

\* ------------------------------------------- view: how a turn is reported
\* Result lines in their variants (with and without subtype, result text and
\* session id) after Task lines, and the failure events of Codex.
ReportLines ==
    {ToolLine("tu1", <<"Task">>, [raw |-> "obj", description |-> DescAB]),
     ResultLine("success", Hi, "s1"), ResultFailed, ResultBare,
     TurnFailed, CodexError}

NextReport ==
    \/ SendClaude("spawned", TRUE, TRUE)
    \/ SendCodex("spawned", TRUE)
    \/ SetBackendMode("codex")
    \/ \E t \in Turns : \E line \in ReportLines : ReadLine(t, line)

SpecReport == InitCli /\ [][NextReport]_vars

\* Turn t has just read one more line.
ReadsLine(t) == Len(turns'[t].lines) = Len(turns[t].lines) + 1

\* The line turn t has just read, and the notifications that reading emitted.
LineRead(t) == turns'[t].lines[Len(turns'[t].lines)]
NewNotes(t) ==
    Received(SubSeq(turns'[t].emitted, Len(turns[t].emitted) + 1, Len(turns'[t].emitted)))

\* C14: when a Claude result event is handled, the session identifier is
\* updated and persisted if the event carries one (and left alone otherwise),
\* every active subagent is flushed with one subagent-end each, in order, and
\* then exactly one agent-result is emitted, whose success flag is true exactly
\* when subtype is "success" and whose text is the result field (empty when
\* absent); nothing else is emitted.
ResultHandling ==
    [][\A t \in Turns :
          (turns[t].kind = "claude" /\ ReadsLine(t) /\ LineRead(t).type = "result") =>
             LET ev == LineRead(t)
                 ends == [i \in DOMAIN ACTIVE_SUBAGENTS |->
                             Note("subagent-end", [task_id |-> ACTIVE_SUBAGENTS[i]])]
                 success == "subtype" \in DOMAIN ev /\ ev.subtype = "success"
                 text == IF "result" \in DOMAIN ev THEN ev.result ELSE <<>>
             IN  /\ NewNotes(t) =
                       ends \o <<Note("agent-result", [success |-> success, text |-> text])>>
                 /\ ACTIVE_SUBAGENTS' = <<>>
                 /\ IF "session_id" \in DOMAIN ev
                    THEN /\ SESSION_ID' = Some(ev.session_id)
                         /\ SESSION_FILE' = Some(ev.session_id)
                    ELSE UNCHANGED <<SESSION_ID, SESSION_FILE>>
      ]_vars

\* C14 happens: a Claude child started a subagent and then wrote a result line
\* without subtype and text but with a session id: the subagent-end precedes
\* an agent-result with success = false and empty text, and the session is s1.
BareResultAfterTask ==
    \E t \in Turns :
        /\ turns[t].kind = "claude"
        /\ Len(turns[t].lines) = 2 /\ turns[t].lines[2] = ResultBare
        /\ Len(turns[t].emitted) = 4
        /\ Received(SubSeq(turns[t].emitted, 3, 4)) =
              <<Note("subagent-end", [task_id |-> TaskId("tu1", DescAB)]),
                Note("agent-result", [success |-> FALSE, text |-> <<>>])>>
        /\ SESSION_ID = Some("s1") /\ SESSION_FILE = Some("s1")
        /\ ACTIVE_SUBAGENTS = <<>>

\* C15: a failure the backend reports through its own schema (Codex
\* turn.failed or error; a Claude result whose subtype is not "success") emits
\* an agent-error notification carrying the backend's reason, flushes no
\* subagent and emits no subagent-end.
FailureHandling ==
    [][\A t \in Turns :
          ( /\ ReadsLine(t)
            /\ \/ turns[t].kind = "codex" /\ LineRead(t).type \in {"turn.failed", "error"}
               \/ /\ turns[t].kind = "claude" /\ LineRead(t).type = "result"
                  /\ ~("subtype" \in DOMAIN LineRead(t) /\ LineRead(t).subtype = "success") )
          => /\ \E i \in DOMAIN NewNotes(t) : NewNotes(t)[i].ev = "agent-error"
             /\ \A i \in DOMAIN NewNotes(t) : NewNotes(t)[i].ev # "subagent-end"
             /\ UNCHANGED ACTIVE_SUBAGENTS
      ]_vars

\* C16: when a child announces a session (Claude system event with
\* session_id, Codex thread.started with thread_id), that backend's in-memory
\* identifier becomes the announced value, the value is written to that
\* backend's session file, and a notification announcing the session is
\* emitted to the frontend; an announcement without identifier changes nothing.
SessionAnnouncement ==
    [][\A t \in Turns :
          /\ (turns[t].kind = "claude" /\ ReadsLine(t) /\ LineRead(t).type = "system") =>
                IF "session_id" \in DOMAIN LineRead(t)
                THEN /\ SESSION_ID' = Some(LineRead(t).session_id)
                     /\ SESSION_FILE' = Some(LineRead(t).session_id)
                     /\ NewNotes(t) # <<>>
                ELSE UNCHANGED <<sessionVars, ACTIVE_SUBAGENTS>> /\ NewNotes(t) = <<>>
          /\ (turns[t].kind = "codex" /\ ReadsLine(t) /\ LineRead(t).type = "thread.started") =>
                IF "thread_id" \in DOMAIN LineRead(t)
                THEN /\ CODEX_SESSION_ID' = Some(LineRead(t).thread_id)
                     /\ CODEX_SESSION_FILE' = Some(LineRead(t).thread_id)
                     /\ NewNotes(t) # <<>>
                ELSE UNCHANGED <<sessionVars, ACTIVE_SUBAGENTS>> /\ NewNotes(t) = <<>>
      ]_vars

\* ------------------------------------------------ view: tool invocations
\* Tool calls of either backend under the names the routing tells apart.
ToolViewLines ==
    {ToolLine("tu3", name, ArgsOf(name)) :
        name \in {EmotionName, BothName, ScreenshotName, OtherName}}
        \cup {CodexToolEvent(phase, "i1", MoveName) : phase \in ItemPhases}
        \cup {CodexToolEvent("item.started", "i1", BothName),
              CodexMcpEvent("item.started", "i2", EmotionName)}

NextTool ==
    \/ SendClaude("spawned", TRUE, TRUE)
    \/ SendCodex("spawned", TRUE)
    \/ SetBackendMode("codex")
    \/ \E t \in Turns : \E line \in ToolViewLines : ReadLine(t, line)

SpecTool == InitCli /\ [][NextTool]_vars

IsToolItem(line) ==
    /\ line.raw = "json" /\ line.type \in ItemPhases /\ "item" \in DOMAIN line
    /\ line.item.type \in {"tool_call", "mcp_tool_call"}

\* The name a Codex tool item goes by.
ItemName(item) == IF item.type = "tool_call" THEN item.name ELSE item.tool

\* The tool calls [name, input] a stdout line reports, in order.
ToolCalls(kind, line) ==
    IF kind = "claude" /\ line.raw = "json" /\ line.type = "assistant"
    THEN LET uses == SelectSeq(line.message.content, LAMBDA b : b.type = "tool_use")
         IN  [i \in DOMAIN uses |-> [name |-> uses[i].name, input |-> uses[i].input]]
    ELSE IF kind = "codex" /\ IsToolItem(line)
    THEN <<[name |-> ItemName(line.item), input |-> line.item.arguments]>>
    ELSE <<>>

\* Whether turn t already read a report of the Codex item with that id.
ItemSeen(t, id) ==
    \E i \in DOMAIN turns[t].lines :
        IsToolItem(turns[t].lines[i]) /\ turns[t].lines[i].item.id = id

GenericNotes(notes) == SelectSeq(notes, LAMBDA n : n.ev = "agent-tool-use")
NameSpecificNotes(notes) ==
    SelectSeq(notes, LAMBDA n : n.ev \in {"agent-emotion", "clawd-move"})

\* C17: every tool invocation made by the child, whatever its name, produces
\* exactly one agent-tool-use notification carrying the raw name and
\* arguments; a Codex tool call item is one invocation even when both an
\* item.started and an item.completed event report it.
ToolUseFanOut ==
    [][\A t \in Turns :
          ReadsLine(t) =>
             LET calls == ToolCalls(turns[t].kind, LineRead(t))
                 first == ~(turns[t].kind = "codex" /\ IsToolItem(LineRead(t))
                              /\ ItemSeen(t, LineRead(t).item.id))
             IN  GenericNotes(NewNotes(t)) =
                    IF first
                    THEN [i \in DOMAIN calls |->
                             Note("agent-tool-use",
                                  [tool |-> calls[i].name, input |-> calls[i].input])]
                    ELSE <<>>
      ]_vars

Answers == <<<<"q", "a">>>>

NextAsk ==
    \/ SendClaude("spawned", TRUE, TRUE)
    \/ \E t \in Turns : \E line \in InteractiveLines : ReadLine(t, line)
    \/ \E t \in Turns : ReadEof(t)
    \/ \E t \in Turns : ChildExit(t, "exit0")
    \/ \E t \in Turns : WaitChild(t, TRUE)
    \/ \E id \in ToolUseIds : ConfirmExitPlanMode(id)
    \/ \E id \in ToolUseIds : DenyExitPlanMode(id, <<"no">>)
    \/ \E id \in ToolUseIds : \E parses \in BOOLEAN :
          RespondToAskUserQuestion(id, parses, Answers)
    \/ \E id \in ToolUseIds : \E parses \in BOOLEAN :
          AnswerAgentQuestion(id, parses, Answers)

SpecAsk == InitCli /\ [][NextAsk]_vars

\* Turn t handled an interactive tool call and its reader has not yet seen
\* child.wait() return.
AwaitsReply(t) ==
    /\ turns[t].kind = "claude"
    /\ \E i \in DOMAIN turns[t].lines : turns[t].lines[i] \in InteractiveLines
    /\ turns[t].pc \in {"reading", "waiting"}

\* The name-specific notification of an interactive tool_use block.
InteractiveNote(b) ==
    IF b.name = <<"ExitPlanMode">>
    THEN Note("agent-exit-plan-mode", [tool_use_id |-> b.id])
    ELSE Note("agent-ask-question",
              [question_id |-> b.id, questions |-> ParseQuestions(b.input)])

\* C19: when a Claude tool use named exactly ExitPlanMode or AskUserQuestion
\* is handled, the plan-exit or ask-question notification carrying its
\* tool-use id is emitted, and the stdin handle of that turn stays in the slot
\* until the exit of the turn's process is observed, so that a confirm, deny
\* or answer issued before that is written to that process and succeeds.
InteractiveTurnStaysOpen ==
    /\ [](\A t \in Turns : AwaitsReply(t) => CLAUDE_STDIN = Some(t))
    /\ [][\A t \in Turns :
            /\ (turns[t].kind = "claude" /\ ReadsLine(t)
                  /\ LineRead(t) \in InteractiveLines) =>
                  NewNotes(t)[1] = InteractiveNote(LineRead(t).message.content[1])
            /\ ( /\ AwaitsReply(t)
                 /\ \E id \in ToolUseIds :
                       \/ ConfirmExitPlanMode(id)
                       \/ DenyExitPlanMode(id, <<"no">>)
                       \/ RespondToAskUserQuestion(id, TRUE, Answers) )
               => /\ ret'.ok
                  /\ Len(turns'[t].stdin) = Len(turns[t].stdin) + 1
         ]_vars

\* C20: while a turn is open, the frontend's answer operation writes exactly
\* one message to the retained stdin handle, holding a tool_result block for
\* the tool-use id and a text block of the same content, and returns success;
\* it fails only when no turn is open, and then, or when the questions JSON is
\* malformed, nothing is written.
AnswerWhileTurnOpen ==
    [][\A id \in ToolUseIds : \A parses \in BOOLEAN :
          AnswerAgentQuestion(id, parses, Answers) =>
             IF IsSome(CLAUDE_STDIN) /\ parses
             THEN /\ ret'.ok
                  /\ \E content \in {<<"answered", Answers>>} :
                        turns' = [turns EXCEPT ![Unwrap(CLAUDE_STDIN)].stdin =
                                    Append(@, AskResultMessage(id, content,
                                        [questions |-> "questions", answers |-> Answers]))]
             ELSE /\ ~ret'.ok
                  /\ UNCHANGED turns
      ]_vars

\* ------------------------------------------------- view: spawn failures
\* Requests whose child fails to start, next to requests that succeed, with
\* and without images, and the end of the turns that did start.
SpawnImages == {<<>>, <<Image("png", TRUE, TRUE)>>}

NextSpawn ==
    \/ \E outcome \in {"spawn_err", "spawned"} : SendClaude(outcome, TRUE, TRUE)
    \/ \E images \in SpawnImages : \E outcome \in {"spawn_err", "spawned"} :
          SendCodexImages(images, outcome, TRUE)
    \/ \E mode \in {"claude", "codex"} : SetBackendMode(mode)
    \/ \E t \in Turns : \E line \in {ResultBare, TurnFailed} : ReadLine(t, line)
    \/ \E t \in Turns : ReadEof(t)
    \/ \E t \in Turns : ChildExit(t, "exit0")
    \/ \E t \in Turns : WaitChild(t, TRUE)

SpecSpawn == InitCli /\ [][NextSpawn]_vars

\* The number of agent-error notifications emitted so far. Every app.emit of
\* the CLI build is made by the reader thread of a turn.
RECURSIVE AgentErrorsUpTo(_, _)
AgentErrorsUpTo(ts, n) ==
    IF n = 0 THEN 0
    ELSE Cardinality({i \in DOMAIN ts[n].emitted : ts[n].emitted[i].ev = "agent-error"})
         + AgentErrorsUpTo(ts, n - 1)
AgentErrors(ts) == AgentErrorsUpTo(ts, Len(ts))

\* C21: when the external process fails to start, the failure is surfaced as
\* an agent-error notification, the turn aborts with no reader thread started
\* and the retained handle slot left empty, and every resource acquired for
\* the turn before the spawn (the temp images) is released.
SpawnErrorSurfaced ==
    [][ /\ SendClaude("spawn_err", TRUE, TRUE) =>
              /\ AgentErrors(turns') = AgentErrors(turns) + 1
              /\ Len(turns') = Len(turns)
              /\ CLAUDE_STDIN' = None
        /\ \A images \in SpawnImages :
              SendCodexImages(images, "spawn_err", TRUE) =>
                 /\ AgentErrors(turns') = AgentErrors(turns) + 1
                 /\ Len(turns') = Len(turns)
                 /\ TEMP_DIR' \cap Range(SaveImagesToTemp(images).paths) = {}
      ]_vars

\* ------------------------------------------------ command-line builders
\* An argument is a sequence of characters; a flag or an identifier that is
\* never taken apart is one element of it.
Backslash == "\\"
Quote == "\""
Newline == "\n"
PromptChars == {Backslash, Quote, Newline, "n"}
MaxPrompt == 3

\* str::replace(from, to) with a one-character pattern.
RECURSIVE ReplaceChar(_, _, _)
ReplaceChar(text, from, to) ==
    IF text = <<>> THEN <<>>
    ELSE (IF Head(text) = from THEN to ELSE <<Head(text)>>)
            \o ReplaceChar(Tail(text), from, to)

EscapeQuotesFirst(prompt) ==
    ReplaceChar(ReplaceChar(ReplaceChar(prompt,
        Quote, <<Backslash, Quote>>),
        Backslash, <<Backslash, Backslash>>),
        Newline, <<Backslash, "n">>)

\* prompt.replace('\\', "\\\\").replace('"', "\\\"").replace('\n', "\\n")
Escape(prompt) ==
    ReplaceChar(ReplaceChar(ReplaceChar(prompt,
        Backslash, <<Backslash, Backslash>>),
        Quote, <<Backslash, Quote>>),
        Newline, <<Backslash, "n">>)

\* format!("\"{}\"", text)
Quoted(text) == <<Quote>> \o text \o <<Quote>>

\* CodexCommandBuilder::new
CodexNew == << <<"exec">> >>

\* with_config: "--config", then format!("{}={}", key, value)
WithConfig(args, key, value) == args \o << <<"--config">>, <<key, "=">> \o value >>

\* CodexCommandBuilder::with_system_prompt
CodexWithSystemPrompt(args, prompt) ==
    WithConfig(args, "developer_instructions", Quoted(Escape(prompt)))

\* The strings over an alphabet up to a length.
StringsUpTo(chars, n) == UNION {[1..k -> chars] : k \in 0..n}

\* ------------------------------------------------- view: prompt escaping
InitEscape ==
    /\ InitCells /\ build = "cli"
    /\ probe \in {[fn |-> "with_system_prompt", prompt |-> prompt, args |-> None] :
                     prompt \in StringsUpTo(PromptChars, MaxPrompt)}

\* CodexCommandBuilder::new().with_system_prompt(prompt).build()
BuildSystemPrompt ==
    /\ probe.fn = "with_system_prompt" /\ probe.args = None
    /\ probe' = [probe EXCEPT !.args = Some(CodexWithSystemPrompt(CodexNew, probe.prompt))]
    /\ UNCHANGED <<libVars, lockVars, TEMP_DIR, build, BACKEND_MODE, sessionVars,
                   cwdVars, handleVars, ACTIVE_SUBAGENTS, turns, diag, ret>>

NextEscape == BuildSystemPrompt

SpecEscape == InitEscape /\ [][NextEscape]_vars

\* The inverse rule: scanning left to right, \\ is a backslash, \" a quote
\* and \n a newline.
RECURSIVE Unescape(_)
Unescape(text) ==
    IF text = <<>> THEN <<>>
    ELSE IF Head(text) = Backslash /\ Len(text) >= 2
              /\ text[2] \in {Backslash, Quote, "n"}
    THEN <<IF text[2] = "n" THEN Newline ELSE text[2]>>
            \o Unescape(SubSeq(text, 3, Len(text)))
    ELSE <<Head(text)>> \o Unescape(Tail(text))

\* Scanning left to right, no raw newline and no quote outside an escape.
RECURSIVE NoRawNewlineOrQuote(_)
NoRawNewlineOrQuote(text) ==
    IF text = <<>> THEN TRUE
    ELSE IF Head(text) = Backslash
    THEN Len(text) >= 2 /\ NoRawNewlineOrQuote(SubSeq(text, 3, Len(text)))
    ELSE Head(text) \notin {Quote, Newline} /\ NoRawNewlineOrQuote(Tail(text))

\* The escaped scalar of a developer_instructions="..." argument.
EscapedScalar(arg) == SubSeq(arg, 4, Len(arg) - 1)

\* C22: for every system prompt over backslash, double quote, newline and an
\* ordinary character, unescaping the escaped scalar that with_system_prompt
\* produces gives back the prompt exactly, and the escaped scalar holds no raw
\* newline and no unescaped double quote.
EscapeRoundTrip ==
    (probe.fn = "with_system_prompt" /\ IsSome(probe.args)) =>
        LET args == Unwrap(probe.args)
            arg == args[Len(args)]
        IN  /\ Len(args) = 3 /\ args[2] = <<"--config">>
            /\ SubSeq(arg, 1, 3) = <<"developer_instructions", "=", Quote>>
            /\ arg[Len(arg)] = Quote
            /\ Unescape(EscapedScalar(arg)) = probe.prompt
            /\ NoRawNewlineOrQuote(EscapedScalar(arg))

\* C22 happens: the prompt backslash, n, quote was escaped to
\* backslash backslash n backslash quote.
EscapedBackslashN ==
    /\ probe.fn = "with_system_prompt" /\ IsSome(probe.args)
    /\ probe.prompt = <<Backslash, "n", Quote>>
    /\ EscapedScalar(Unwrap(probe.args)[3]) =
          <<Backslash, Backslash, "n", Backslash, Quote>>

\* The option calls of the two builders. A call is [op, arg]; arg is the
\* sequence of the arguments it is given (empty for None and for options
\* without parameter). The result is the argument vector after the call.
ClaudeNew == <<>>

ClaudeResumeIdFirst(args, session_id) ==
    IF session_id = <<>> THEN args
    ELSE args \o <<session_id[1], <<"--resume">> >>

\* ClaudeCommandBuilder::with_session_resume
ClaudeWithSessionResume(args, session_id) ==
    IF session_id = <<>> THEN args
    ELSE args \o << <<"--resume">>, session_id[1] >>

\* The options of ClaudeCommandBuilder.
ClaudeCall(args, call) ==
    CASE call.op = "with_interactive_streaming" ->
            args \o << <<"--output-format">>, <<"stream-json">>, <<"--verbose">> >>
      [] call.op = "with_streaming_input" ->
            args \o << <<"--input-format">>, <<"stream-json">> >>
      [] call.op = "with_mcp_config" -> args \o << <<"--mcp-config">>, call.arg[1] >>
      [] call.op = "with_allowed_tools" -> args \o << <<"--allowedTools">> >> \o call.arg
      [] call.op = "with_system_prompt" -> args \o << <<"--system-prompt">>, call.arg[1] >>
      [] call.op = "with_session_resume" -> ClaudeWithSessionResume(args, call.arg)
      [] call.op = "with_skip_permissions" ->
            args \o << <<"--dangerously-skip-permissions">> >>

\* CodexCommandBuilder::with_session_resume
CodexWithSessionResume(args, session_id) ==
    IF session_id = <<>> THEN args
    ELSE args \o << <<"resume">>, session_id[1] >>

\* CodexCommandBuilder::with_images
RECURSIVE CodexWithImages(_, _)
CodexWithImages(args, image_paths) ==
    IF image_paths = <<>> THEN args
    ELSE CodexWithImages(args \o << <<"--image">>, Head(image_paths) >>,
                         Tail(image_paths))

\* The options of CodexCommandBuilder.
CodexCall(args, call) ==
    CASE call.op = "with_session_resume" -> CodexWithSessionResume(args, call.arg)
      [] call.op = "with_json_output" -> args \o << <<"--json">> >>
      [] call.op = "with_full_auto" -> args \o << <<"--full-auto">> >>
      [] call.op = "with_skip_git_repo_check" -> args \o << <<"--skip-git-repo-check">> >>
      [] call.op = "with_default_model_config" ->
            WithConfig(WithConfig(args, "model", Quoted(<<"gpt-5.2">>)),
                       "model_reasoning_effort", Quoted(<<"high">>))
      [] call.op = "with_system_prompt" -> CodexWithSystemPrompt(args, call.arg[1])
      [] call.op = "with_working_directory" ->
            IF call.arg = <<>> THEN args ELSE args \o << <<"--cd">>, call.arg[1] >>
      [] call.op = "with_images" -> CodexWithImages(args, call.arg)
      [] call.op = "with_prompt" -> args \o <<call.arg[1]>>

\* ------------------------------------------- view: command-line builders
Call(op, arg) == [op |-> op, arg |-> arg]
SessionArgs == {<<>>, << <<"s1">> >>}
ClaudeCalls ==
    {Call("with_interactive_streaming", <<>>), Call("with_streaming_input", <<>>),
     Call("with_mcp_config", << <<"mcp.json">> >>),
     Call("with_allowed_tools", << <<"Read">>, <<"Task">> >>),
     Call("with_system_prompt", <<Hi>>), Call("with_skip_permissions", <<>>)}
        \cup {Call("with_session_resume", sid) : sid \in SessionArgs}
CodexCalls ==
    {Call("with_json_output", <<>>), Call("with_full_auto", <<>>),
     Call("with_skip_git_repo_check", <<>>), Call("with_default_model_config", <<>>),
     Call("with_system_prompt", <<Hi>>), Call("with_working_directory", <<>>),
     Call("with_working_directory", << <<"p1">> >>),
     Call("with_images", << <<"0.png">>, <<"1.jpg">> >>),
     Call("with_prompt", <<Hi>>)}
        \cup {Call("with_session_resume", sid) : sid \in SessionArgs}
MaxCalls == 3

InitBuilder ==
    /\ InitCells /\ build = "cli"
    /\ probe \in {[fn |-> "claude_builder", calls |-> <<>>, args |-> ClaudeNew],
                  [fn |-> "codex_builder", calls |-> <<>>, args |-> CodexNew]}

\* One more option call on the builder.
ClaudeOption(call) ==
    /\ probe.fn = "claude_builder" /\ Len(probe.calls) < MaxCalls
    /\ probe' = [probe EXCEPT !.calls = Append(@, call),
                              !.args = ClaudeCall(@, call)]
    /\ UNCHANGED <<libVars, lockVars, TEMP_DIR, build, BACKEND_MODE, sessionVars,
                   cwdVars, handleVars, ACTIVE_SUBAGENTS, turns, diag, ret>>

CodexOption(call) ==
    /\ probe.fn = "codex_builder" /\ Len(probe.calls) < MaxCalls
    /\ probe' = [probe EXCEPT !.calls = Append(@, call),
                              !.args = CodexCall(@, call)]
    /\ UNCHANGED <<libVars, lockVars, TEMP_DIR, build, BACKEND_MODE, sessionVars,
                   cwdVars, handleVars, ACTIVE_SUBAGENTS, turns, diag, ret>>

NextBuilder ==
    \/ \E call \in ClaudeCalls : ClaudeOption(call)
    \/ \E call \in CodexCalls : CodexOption(call)

SpecBuilder == InitBuilder /\ [][NextBuilder]_vars

\* The call the builder has just been given.
LastCall == probe'.calls[Len(probe'.calls)]

\* C23: the builders are append-only accumulators: every option call leaves
\* the earlier tokens as an unchanged prefix (a Codex vector starts with
\* "exec"); with_session_resume(Some(id)) appends the resume token immediately
\* followed by id, with_session_resume(None) appends nothing, and a prompt
\* added last is the last token.
BuilderAppendOnly ==
    [][(probe.fn \in {"claude_builder", "codex_builder"}
          /\ Len(probe'.calls) = Len(probe.calls) + 1) =>
          LET old == probe.args
              new == probe'.args
              resume == IF probe.fn = "claude_builder"
                        THEN <<"--resume">> ELSE <<"resume">>
          IN  /\ Len(new) >= Len(old) /\ SubSeq(new, 1, Len(old)) = old
              /\ probe.fn = "codex_builder" => new[1] = <<"exec">>
              /\ LastCall = Call("with_session_resume", << <<"s1">> >>) =>
                    new = old \o <<resume, <<"s1">> >>
              /\ LastCall = Call("with_session_resume", <<>>) => new = old
              /\ LastCall.op = "with_prompt" => new[Len(new)] = LastCall.arg[1]
      ]_vars

\* C23 happens: a Codex vector built with a resume and then a prompt is
\* exec, resume, s1, and the prompt.
ResumeThenPrompt ==
    /\ probe.fn = "codex_builder"
    /\ probe.calls = <<Call("with_session_resume", << <<"s1">> >>),
                       Call("with_prompt", <<Hi>>)>>
    /\ probe.args = << <<"exec">>, <<"resume">>, <<"s1">>, Hi >>

\* ------------------------------------------------- view: temp image files
\* Codex requests with images: all saved, or the second one failing to
\* decode or to be written; the child spawned or not; the end of the turn.
ImageViewRequests ==
    {<<Image("png", TRUE, TRUE)>>,
     <<Image("png", TRUE, TRUE), Image("jpg", FALSE, TRUE)>>,
     <<Image("png", TRUE, TRUE), Image("jpg", TRUE, FALSE)>>}

NextImages ==
    \/ SetBackendMode("codex")
    \/ \E images \in ImageViewRequests : \E outcome \in {"spawn_err", "spawned"} :
          SendCodexImages(images, outcome, TRUE)
    \/ \E t \in Turns : ReadEof(t)
    \/ \E t \in Turns : \E status \in {"exit0", "exit1"} : ChildExit(t, status)
    \/ \E t \in Turns : WaitChild(t, TRUE)

SpecImages == InitCli /\ [][NextImages]_vars

\* The temp files of the turns that are not over yet.
ImagesInUse ==
    UNION {turns[t].images : t \in {u \in Turns : turns[u].pc \in {"reading", "waiting"}}}

\* C24: every temp image file written for a Codex turn has been removed by
\* the time that turn is over, on every path: normal completion, non-zero
\* exit, a later image failing to decode or to be written, and failure to
\* spawn the child. So the only files on disk are those of turns in flight.
TempImagesRemoved == TEMP_DIR \subseteq ImagesInUse

\* ---------------------------------------------- view: backend selection
\* Turns of both backends in flight while the selection changes.
ModeLines == {SystemLine("s1"), [raw |-> "json", type |-> "thread.started", thread_id |-> "t1"]}

NextMode ==
    \/ SendClaude("spawned", TRUE, TRUE)
    \/ SendCodex("spawned", TRUE)
    \/ \E mode \in {"claude", "codex", "gpt"} : SetBackendMode(mode)
    \/ \E t \in Turns : \E line \in ModeLines : ReadLine(t, line)

SpecMode == InitCli /\ [][NextMode]_vars

\* C25: set_backend_mode takes effect for every send_agent_message that
\* starts after it and leaves the turns in flight alone: such a turn keeps
\* having its output parsed with the schema of the backend that spawned it
\* and updates only that backend's session identifier; a value other than
\* "claude" or "codex" returns an error and leaves the selection unchanged.
BackendSelection ==
    [][ /\ \A mode \in {"claude", "codex"} :
              SetBackendMode(mode) =>
                 /\ BACKEND_MODE' = mode /\ ret'.ok
                 /\ UNCHANGED <<turns, sessionVars, handleVars>>
        /\ SetBackendMode("gpt") => (~ret'.ok /\ UNCHANGED <<BACKEND_MODE, turns>>)
        /\ Len(turns') = Len(turns) + 1 =>
              /\ turns'[Len(turns')].kind = BACKEND_MODE
              /\ SubSeq(turns', 1, Len(turns)) = turns
        /\ \A t \in Turns :
              ReadsLine(t) =>
                 /\ turns'[t].kind = turns[t].kind
                 /\ turns[t].kind = "claude" =>
                       /\ LineRead(t) \in ClaudeLines
                       /\ UNCHANGED <<CODEX_SESSION_ID, CODEX_SESSION_FILE>>
                       /\ LineRead(t) = SystemLine("s1") => SESSION_ID' = Some("s1")
                 /\ turns[t].kind = "codex" =>
                       /\ LineRead(t) \in CodexLines
                       /\ UNCHANGED <<SESSION_ID, SESSION_FILE>>
                       /\ LineRead(t).type = "thread.started" =>
                             CODEX_SESSION_ID' = Some("t1")
      ]_vars

\* C25 happens: the selection went to Codex while a Claude turn was in
\* flight, a Codex turn was started, both turns stored their session, and an
\* invalid selection was refused.
BothBackendsInFlight ==
    /\ Len(turns) = 2 /\ turns[1].kind = "claude" /\ turns[2].kind = "codex"
    /\ turns[1].lines = <<SystemLine("s1")>> /\ Len(turns[2].lines) = 1
    /\ SESSION_ID = Some("s1") /\ CODEX_SESSION_ID = Some("t1")
    /\ BACKEND_MODE = "codex" /\ ret = Err("set_backend_mode")

\* ------------------------------------------- the retained stdin handle slot
\* The Claude turns started so far, and the newest of them.
ClaudeTurns == {t \in Turns : turns[t].kind = "claude"}

NewestClaudeTurn ==
    CHOOSE t \in ClaudeTurns : \A u \in ClaudeTurns : u <= t

\* C26: the retained stdin handle is one slot: once run_query has returned
\* success for a new Claude turn, and for as long as the reader of that turn
\* runs, the slot holds the handle of that turn's child, and it never holds
\* the handle of an earlier child.
SlotHoldsNewestChild ==
    ClaudeTurns # {} =>
        /\ turns[NewestClaudeTurn].pc \in {"reading", "waiting"} =>
               CLAUDE_STDIN = Some(NewestClaudeTurn)
        /\ IsSome(CLAUDE_STDIN) => Unwrap(CLAUDE_STDIN) = NewestClaudeTurn

\* ------------------------------------------- view: locks of the shared cells
\* Each handler is the sequence of lock acquisitions, releases and blocking
\* operations it performs, in source order. A MutexGuard bound with `let`
\* is released at the end of its scope; the temporary of a statement such as
\* `*CELL.lock().unwrap() = v` is released at the end of that statement.
Lock(c) == [do |-> "lock", on |-> c]
Unlock(c) == [do |-> "unlock", on |-> c]
Io(what) == [do |-> what, on |-> "none"]

\* The operations the handlers perform outside the process's own memory.
Blocking == {"write", "flush", "file", "emit", "wait"}

Handlers ==
    {"send_tool_result", "run_query", "reader_end", "result", "result_subagent",
     "set_sidecar_cwd", "send_to_current_query", "send_to_sidecar",
     "ensure_sidecar_running", "stop_sidecar"}

StopSidecarStdinFirst ==
    <<Lock("SIDECAR_STDIN"), Lock("SIDECAR_PROCESS"), Io("kill"), Io("wait"),
      Unlock("SIDECAR_PROCESS"), Unlock("SIDECAR_STDIN")>>

\* lib.rs stop_sidecar: process_guard lives to the end of the function, the
\* SIDECAR_STDIN guard is the temporary of the last statement.
StopSidecarSteps ==
    <<Lock("SIDECAR_PROCESS"), Io("kill"), Io("wait"),
      Lock("SIDECAR_STDIN"), Unlock("SIDECAR_STDIN"),
      Unlock("SIDECAR_PROCESS")>>

Program(op) ==
    CASE op = "send_tool_result" ->
           <<Lock("CLAUDE_STDIN"), Io("write"), Io("flush"),
             Unlock("CLAUDE_STDIN")>>
      [] op = "run_query" ->
           <<Lock("SESSION_ID"), Unlock("SESSION_ID"),
             Lock("DEV_MODE"), Unlock("DEV_MODE"),
             Lock("SIDECAR_CWD"), Unlock("SIDECAR_CWD"), Io("spawn"),
             Io("write"), Io("flush"),
             Lock("CLAUDE_STDIN"), Unlock("CLAUDE_STDIN")>>
      [] op = "reader_end" ->
           <<Io("wait"), Io("emit"),
             Lock("CLAUDE_STDIN"), Unlock("CLAUDE_STDIN")>>
      [] op = "result" ->
           <<Lock("SESSION_ID"), Unlock("SESSION_ID"), Io("file"),
             Lock("ACTIVE_SUBAGENTS"), Unlock("ACTIVE_SUBAGENTS"),
             Io("emit")>>
      [] op = "result_subagent" ->
           <<Lock("SESSION_ID"), Unlock("SESSION_ID"), Io("file"),
             Lock("ACTIVE_SUBAGENTS"), Io("emit"), Unlock("ACTIVE_SUBAGENTS"),
             Io("emit")>>
      [] op = "set_sidecar_cwd" ->
           <<Lock("RECENT_CWDS"), Unlock("RECENT_CWDS"),
             Lock("SIDECAR_CWD"), Unlock("SIDECAR_CWD"),
             Lock("SESSION_ID"), Unlock("SESSION_ID"), Io("file")>>
      [] op = "send_to_current_query" ->
           <<Lock("CURRENT_QUERY_STDIN"), Io("write"), Io("flush"),
             Unlock("CURRENT_QUERY_STDIN")>>
      [] op = "send_to_sidecar" ->
           <<Lock("SIDECAR_STDIN"), Io("write"), Io("flush"),
             Unlock("SIDECAR_STDIN")>>
      [] op = "ensure_sidecar_running" ->
           <<Lock("SIDECAR_PROCESS"),
             Lock("DEV_MODE"), Unlock("DEV_MODE"), Io("spawn"),
             Lock("SIDECAR_STDIN"), Unlock("SIDECAR_STDIN"),
             Unlock("SIDECAR_PROCESS")>>
      [] op = "stop_sidecar" ->
           StopSidecarSteps

lockFrame ==
    <<libVars, probe, TEMP_DIR, build, turns, handleVars, sessionVars, cwdVars,
      BACKEND_MODE, ACTIVE_SUBAGENTS, diag, ret>>

\* A thread enters a handler.
BeginHandler(w, op) ==
    /\ threads[w] = Idle
    /\ threads' = [threads EXCEPT ![w] = [op |-> op, pc |-> 1]]
    /\ UNCHANGED <<locks, lockFrame>>

\* The next step of the handler thread w is in. Mutex::lock blocks while
\* another thread holds the cell.
NextStep(w) == Program(threads[w].op)[threads[w].pc]

StepHandler(w) ==
    /\ threads[w] # Idle
    /\ LET step == NextStep(w) IN
       /\ step.do = "lock" => locks[step.on] = None
       /\ locks' = CASE step.do = "lock" -> [locks EXCEPT ![step.on] = Some(w)]
                     [] step.do = "unlock" -> [locks EXCEPT ![step.on] = None]
                     [] OTHER -> locks
       /\ threads' = [threads EXCEPT ![w] =
              IF threads[w].pc = Len(Program(threads[w].op))
              THEN Idle
              ELSE [op |-> threads[w].op, pc |-> threads[w].pc + 1]]
    /\ UNCHANGED lockFrame

NextLocks ==
    \/ \E w \in Workers : \E op \in Handlers : BeginHandler(w, op)
    \/ \E w \in Workers : StepHandler(w)

SpecLocks == InitCli /\ [][NextLocks]_vars

Held(w) == {c \in Cells : locks[c] = Some(w)}

\* C27: critical sections are short: no thread holds the lock of a shared
\* cell while it writes or flushes a child's pipe, writes a file, emits to
\* the frontend or waits for a child.
ShortCriticalSections ==
    \A w \in Workers :
        (threads[w] # Idle /\ NextStep(w).do \in Blocking) => Held(w) = {}

\* ------------------------------------------- view: session lifecycle
\* A launch that may find the session files of an earlier run.
SessionFiles == {None, Some("s0")}

InitCold ==
    /\ InitRest
    /\ build = "cli"
    /\ SESSION_FILE \in SessionFiles
    /\ CODEX_SESSION_FILE \in SessionFiles
    /\ SESSION_ID = ColdSession(SESSION_FILE)
    /\ CODEX_SESSION_ID = ColdSession(CODEX_SESSION_FILE)
    /\ probe = NoProbe

ColdLines ==
    {SystemLine("s1"),
     [raw |-> "json", type |-> "thread.started", thread_id |-> "t1"]}

\* The frontend answers an interactive tool of the first turn.
ReplyInFirstTurn == Len(turns) = 1 /\ ConfirmExitPlanMode("tu1")

NextCold ==
    \/ SendClaude("spawned", TRUE, TRUE)
    \/ SendCodex("spawned", TRUE)
    \/ SetBackendMode("codex")
    \/ \E t \in Turns : \E line \in ColdLines : ReadLine(t, line)
    \/ \E path \in {"p1", BadPath} : SetSidecarCwd(path)
    \/ ClearAgentSession
    \/ ReplyInFirstTurn
    \/ StopSidecar

SpecCold == InitCold /\ [][NextCold]_vars

\* A step in which the reader of a turn of the given backend handles a line.
ReadsLineOf(kind) ==
    \E t \in Turns : \E line \in ColdLines :
        turns[t].kind = kind /\ ReadLine(t, line)

\* C28: each backend's session identifier is empty at cold start whatever the
\* session file holds, and afterwards changes only when the reader of a turn
\* of that backend handles a session-bearing event, on an explicit clear, or
\* on a successful set_sidecar_cwd; sending a message, switching the backend,
\* injecting a reply, a failed set_sidecar_cwd and stop_sidecar leave both
\* identifiers as they are.
SessionLifecycle ==
    /\ SESSION_ID = None /\ CODEX_SESSION_ID = None
    /\ [][/\ SESSION_ID' # SESSION_ID =>
                \/ ReadsLineOf("claude")
                \/ ClearAgentSession /\ BACKEND_MODE = "claude"
                \/ SetSidecarCwd("p1")
          /\ CODEX_SESSION_ID' # CODEX_SESSION_ID =>
                \/ ReadsLineOf("codex")
                \/ ClearAgentSession /\ BACKEND_MODE = "codex"
                \/ SetSidecarCwd("p1")
          /\ ( \/ SendClaude("spawned", TRUE, TRUE)
               \/ SendCodex("spawned", TRUE)
               \/ SetBackendMode("codex")
               \/ ConfirmExitPlanMode("tu1")
               \/ SetSidecarCwd(BadPath)
               \/ StopSidecar )
             => UNCHANGED <<SESSION_ID, CODEX_SESSION_ID>>
         ]_vars

\* C28 happens: the launch found a Codex session file, the Claude reader has
\* stored a session since, the backend was switched and a Codex turn started,
\* stop_sidecar has just returned, and the Codex identifier is still empty.
ColdCodexAfterClaudeSession ==
    /\ CODEX_SESSION_FILE = Some("s0")
    /\ SESSION_ID = Some("s1")
    /\ BACKEND_MODE = "codex"
    /\ \E t \in Turns : turns[t].kind = "codex"
    /\ ret = Ok("stop_sidecar")
    /\ CODEX_SESSION_ID = None

\* ------------------------------------------- view: stop_sidecar in CLI mode
\* Claude children, from their spawn to the end of their reader.
StopLines ==
    {ToolLine("tu1", <<"Task">>, [raw |-> "obj", description |-> DescAB]),
     ResultBare}

NextStop ==
    \/ SendClaude("spawned", TRUE, TRUE)
    \/ \E t \in Turns : \E line \in StopLines : ReadLine(t, line)
    \/ \E t \in Turns : ReadEof(t)
    \/ \E t \in Turns : ChildExit(t, "exit0")
    \/ \E t \in Turns : WaitChild(t, TRUE)
    \/ StopSidecar

SpecStop == InitCli /\ [][NextStop]_vars

\* C29: stop_sidecar in CLI mode changes no state: no child is terminated, no
\* reader leaves its loop, and the retained stdin handles, the session
\* identifiers and files, the subagent set, the working directory and the
\* backend selection are as before; only the command's return is new.
StopSidecarChangesNothing ==
    [][StopSidecar =>
          /\ \A t \in Turns :
                 turns'[t].child = turns[t].child /\ turns'[t].pc = turns[t].pc
          /\ UNCHANGED <<turns, handleVars, sessionVars, ACTIVE_SUBAGENTS,
                         cwdVars, BACKEND_MODE, TEMP_DIR, diag>>
      ]_vars

\* C29 happens: stop_sidecar has returned while a Claude child is running
\* with its handle retained, a session stored and a subagent tracked, and the
\* reader of that child is still in its loop.
StoppedWhileInFlight ==
    /\ ret = Ok("stop_sidecar")
    /\ \E t \in Turns :
           /\ turns[t].child = "alive"
           /\ turns[t].pc = "reading"
           /\ CLAUDE_STDIN = Some(t)
    /\ SESSION_ID = Some("s1")
    /\ ACTIVE_SUBAGENTS # <<>>

\* ------------------------------------------- lib.rs: the persistent sidecar
\* One long-lived sidecar child serves every query. Its record is a turn of
\* kind "persistent"; SIDECAR_PROCESS and SIDECAR_STDIN name that record.
LibOutcomes == {"no_sidecar", "spawn_err", "stdin_none", "stdout_none", "spawned"}

SidecarNotRunning ==
    [op |-> "send_to_sidecar", ok |-> FALSE, error |-> "Sidecar not running"]

\* The application has not been quit.
LibRunning == ret # Ok("quit_app")

\* ensure_sidecar_running returns at `Ok(None) => return Ok(())`: the cell
\* holds a child and try_wait reports it still running. tryWaitOk = FALSE is
\* the Err(e) arm, which falls through to the spawn like Ok(Some(_)).
EnsureReturnsEarly(tryWaitOk) ==
    /\ IsSome(SIDECAR_PROCESS)
    /\ tryWaitOk
    /\ turns[Unwrap(SIDECAR_PROCESS)].child = "alive"

EnsureOk(tryWaitOk, outcome) ==
    EnsureReturnsEarly(tryWaitOk) \/ outcome = "spawned"

\* ensure_sidecar_running, under the SIDECAR_PROCESS lock from its first
\* line to its return. A child spawned before a `?` return is dropped
\* without being killed.
EnsureSidecarRunning(tryWaitOk, outcome) ==
    IF EnsureReturnsEarly(tryWaitOk) \/ outcome \in {"no_sidecar", "spawn_err"}
    THEN UNCHANGED <<turns, libVars>>
    ELSE /\ Len(turns) < MaxTurns
         /\ LET n == Len(turns) + 1 IN
            CASE outcome = "stdin_none" ->
                   /\ turns' = Append(turns, NewTurn("persistent", "aborted", None, <<>>))
                   /\ UNCHANGED libVars
              [] outcome = "stdout_none" ->
                   /\ turns' = Append(turns, NewTurn("persistent", "aborted", None, <<>>))
                   /\ SIDECAR_STDIN' = Some(n)
                   /\ UNCHANGED SIDECAR_PROCESS
              [] OTHER ->
                   /\ turns' = Append(turns, NewTurn("persistent", "reading", None, <<>>))
                   /\ SIDECAR_STDIN' = Some(n)
                   /\ SIDECAR_PROCESS' = Some(n)

libFrame ==
    <<locks, probe, TEMP_DIR, build, BACKEND_MODE, CODEX_SESSION_ID,
      CODEX_SESSION_FILE, cwdVars, handleVars, ACTIVE_SUBAGENTS, diag>>

\* send_agent_message up to `ensure_sidecar_running(app)?`.
LibSendAgentMessage(w, tryWaitOk, outcome) ==
    /\ LibRunning
    /\ threads[w] = Idle
    /\ EnsureSidecarRunning(tryWaitOk, outcome)
    /\ IF EnsureOk(tryWaitOk, outcome)
       THEN /\ threads' = [threads EXCEPT ![w] = [op |-> "send_agent_message", pc |-> 2]]
            /\ UNCHANGED ret
       ELSE /\ ret' = Err("send_agent_message")
            /\ UNCHANGED threads
    /\ UNCHANGED <<libFrame, SESSION_ID, SESSION_FILE>>

\* send_to_sidecar: "Sidecar not running" when the stdin cell is empty, a
\* write error when the child it names is gone, else the command is written.
SendToSidecar(cmd) ==
    IF ~IsSome(SIDECAR_STDIN)
    THEN /\ ret' = SidecarNotRunning
         /\ UNCHANGED turns
    ELSE IF turns[Unwrap(SIDECAR_STDIN)].child # "alive"
    THEN /\ ret' = Err("send_to_sidecar")
         /\ UNCHANGED turns
    ELSE /\ TotalReplies < MaxReplies
         /\ turns' = [turns EXCEPT ![Unwrap(SIDECAR_STDIN)].stdin = Append(@, cmd)]
         /\ ret' = Ok("send_to_sidecar")

\* send_agent_message from the read of SESSION_ID to its return.
LibSendQuery(w) ==
    /\ LibRunning
    /\ threads[w] = [op |-> "send_agent_message", pc |-> 2]
    /\ SendToSidecar([kind |-> "query", sessionId |-> SESSION_ID])
    /\ threads' = [threads EXCEPT ![w] = Idle]
    /\ UNCHANGED <<libFrame, libVars, SESSION_ID, SESSION_FILE>>

\* lib.rs clear_agent_session
LibClearAgentSession(w) ==
    /\ LibRunning
    /\ threads[w] = Idle
    /\ SESSION_ID' = None
    /\ SendToSidecar([kind |-> "clear_session"])
    /\ UNCHANGED <<libFrame, libVars, threads, SESSION_FILE>>

\* lib.rs stop_sidecar, also the first statement of quit_app and of the tray
\* menu's quit: under the SIDECAR_PROCESS lock the child is taken from the
\* cell, killed and reaped, then the stdin cell is emptied.
LibStopSidecar(w, op) ==
    /\ LibRunning
    /\ threads[w] = Idle
    /\ IF IsSome(SIDECAR_PROCESS)
       THEN turns' = [turns EXCEPT ![Unwrap(SIDECAR_PROCESS)].child =
                         IF @ = "alive" THEN "killed" ELSE @]
       ELSE UNCHANGED turns
    /\ SIDECAR_PROCESS' = None
    /\ SIDECAR_STDIN' = None
    /\ ret' = Ok(op)
    /\ UNCHANGED <<libFrame, threads, SESSION_ID, SESSION_FILE>>

LibLines ==
    {[raw |-> "json", type |-> "ready"],
     [raw |-> "json", type |-> "result", sessionId |-> "s1"],
     [raw |-> "json", type |-> "error"]}

\* The stdout reader thread of a sidecar child handles one line.
LibNotes(line) ==
    CASE line.type = "ready" -> <<>>
      [] line.type = "result" -> <<Note("agent-result", line)>>
      [] line.type = "error" -> <<Note("agent-error", line)>>
      [] OTHER -> <<Note("agent-raw", line)>>

LibReadLine(t, line) ==
    /\ turns[t].kind = "persistent"
    /\ turns[t].pc = "reading"
    /\ TotalLines < MaxLines
    /\ turns' = [turns EXCEPT ![t].lines = Append(@, line),
                              ![t].emitted = Publish(@, LibNotes(line))]
    /\ IF line.type = "result" /\ "sessionId" \in DOMAIN line
       THEN SESSION_ID' = Some(line.sessionId) /\ SESSION_FILE' = Some(line.sessionId)
       ELSE UNCHANGED <<SESSION_ID, SESSION_FILE>>
    /\ UNCHANGED <<libFrame, libVars, threads, ret>>

\* The child's stdout closes once the child is gone; the reader thread ends
\* and leaves both cells as they are.
LibReadEof(t) ==
    /\ turns[t].kind = "persistent"
    /\ turns[t].pc = "reading"
    /\ turns[t].child # "alive"
    /\ turns' = [turns EXCEPT ![t].pc = "done"]
    /\ UNCHANGED <<libFrame, libVars, threads, ret, SESSION_ID, SESSION_FILE>>

\* ------------------------------------------- view: sidecar lifecycle
InitLib == Init /\ build = "sidecar"

NextLib ==
    \/ \E w \in Workers : \E tryWaitOk \in BOOLEAN :
         \E outcome \in {"spawn_err", "spawned"} :
           LibSendAgentMessage(w, tryWaitOk, outcome)
    \/ \E w \in Workers : LibSendQuery(w)
    \/ \E w \in Workers : LibClearAgentSession(w)
    \/ \E w \in Workers : \E op \in {"stop_sidecar", "quit_app"} : LibStopSidecar(w, op)
    \/ \E t \in Turns : LibReadLine(t, [raw |-> "json", type |-> "result", sessionId |-> "s1"])
    \/ \E t \in Turns : LibReadEof(t)
    \/ \E t \in Turns : ChildExit(t, "exit1")

SpecLib == InitLib /\ [][NextLib]_vars

SidecarsAlive == {t \in Turns : turns[t].kind = "persistent" /\ turns[t].child = "alive"}

\* C30: ensure_sidecar_running spawns only when no previously spawned sidecar
\* is still running, so at most one sidecar child is alive at any time; when
\* stop_sidecar returns both cells are empty, and while the stdin cell is
\* empty a send fails with "Sidecar not running".
SingleSidecar ==
    /\ [](Cardinality(SidecarsAlive) <= 1)
    /\ [][/\ (\E w \in Workers : LibStopSidecar(w, "stop_sidecar")) =>
                SIDECAR_PROCESS' = None /\ SIDECAR_STDIN' = None
          /\ \A w \in Workers :
                (LibSendQuery(w) /\ SIDECAR_STDIN = None) => ret' = SidecarNotRunning
         ]_vars

\* ------------------------------------------- cleanup of overlapping turns
\* The reader thread of turn t takes a step: it handles a line or moves on
\* in its loop / wait / cleanup sequence.
ReaderSteps(t) ==
    \/ turns'[t].pc # turns[t].pc
    \/ Len(turns'[t].lines) > Len(turns[t].lines)

\* C31: the end-of-turn cleanup of one turn never clears the retained handle
\* of a later turn: a slot that holds turn b's handle is emptied only by a
\* step of b's own reader thread, never by the reader of an earlier turn that
\* is still finishing.
CleanupClearsOwnHandleOnly ==
    [][\A b \in Turns :
          /\ (CLAUDE_STDIN = Some(b) /\ CLAUDE_STDIN' = None) => ReaderSteps(b)
          /\ (CURRENT_QUERY_STDIN = Some(b) /\ CURRENT_QUERY_STDIN' = None) =>
                 ReaderSteps(b)
      ]_vars

\* ------------------------------------------- correlation of replies
\* The tool-use ids child t announced to the frontend as awaiting a reply.
AnnouncedIds(t) ==
    {turns[t].emitted[i].data.tool_use_id :
        i \in {j \in DOMAIN turns[t].emitted :
                  turns[t].emitted[j].ev = "agent-exit-plan-mode"}}
    \cup
    {turns[t].emitted[i].data.question_id :
        i \in {j \in DOMAIN turns[t].emitted :
                  turns[t].emitted[j].ev = "agent-ask-question"}}

\* The tool-use ids of the replies written to the stdin of child t.
RepliedIds(t) ==
    {turns[t].stdin[i].content[1].tool_use_id :
        i \in {j \in DOMAIN turns[t].stdin : turns[t].stdin[j].kind = "user"}}

\* C32: a confirm, deny or answer for a tool-use id announced by one child is
\* written only to the stdin of that child, never to the stdin of the child
\* of a different turn.
RepliesReachAnnouncer ==
    \A t, u \in Turns :
        \A id \in AnnouncedIds(t) \cap RepliedIds(u) :
            u = t \/ id \in AnnouncedIds(u)

\* ------------------------------------------- terminal notifications
\* The agent-result and agent-error notifications of turn t.
TerminalNotes(t) ==
    SelectSeq(turns[t].emitted, LAMBDA n : n.ev \in {"agent-result", "agent-error"})

\* C33: each turn produces at most one terminal notification: over the whole
\* life of one child process at most one agent-result or agent-error is
\* emitted.
AtMostOneTerminalNote ==
    \A t \in Turns : Len(TerminalNotes(t)) <= 1

\* ------------------------------------------- subagents and their turn
\* The task ids of the notifications of event ev that turn t emitted.
TaskIdsIn(t, ev) ==
    {turns[t].emitted[i].data.task_id :
        i \in {j \in DOMAIN turns[t].emitted : turns[t].emitted[j].ev = ev}}

InFlight(t) == turns[t].pc \in {"reading", "waiting"}

\* C34: subagents are scoped to their turn: the active subagent set is empty
\* whenever no turn is in flight, and the subagent-end notifications of a
\* turn name only subagents that the same child started.
SubagentsScopedToTurn ==
    /\ (\A t \in Turns : ~InFlight(t)) => ACTIVE_SUBAGENTS = <<>>
    /\ \A t \in Turns : TaskIdsIn(t, "subagent-end") \subseteq TaskIdsIn(t, "subagent-start")

\* ------------------------------------------- view: Codex text
\* Codex children that stream text through started and completed items and
\* close protocol turns with turn.completed.
NextCodexText ==
    \/ SetBackendMode("codex")
    \/ SendCodex("spawned", TRUE)
    \/ \E t \in Turns : \E line \in CodexTextLines : ReadLine(t, line)

SpecCodexText == InitCli /\ [][NextCodexText]_vars

\* The position of the last agent-result of turn t before notification k, or 0.
PrevResultNote(t, k) ==
    LET before == {j \in 1..(k - 1) : turns[t].emitted[j].ev = "agent-result"}
    IN  IF before = {} THEN 0 ELSE CHOOSE j \in before : \A i \in before : i <= j

\* The texts of the agent-stream notifications i..k of turn t, concatenated in
\* emission order.
RECURSIVE StreamedText(_, _, _)
StreamedText(t, i, k) ==
    IF i > k THEN <<>>
    ELSE (IF turns[t].emitted[i].ev = "agent-stream"
          THEN turns[t].emitted[i].data.text ELSE <<>>)
         \o StreamedText(t, i + 1, k)

\* C35: at every turn.completed of a Codex child the text of the agent-result
\* is the concatenation, in emission order, of the texts of the agent-stream
\* notifications the child emitted since it started or since its previous
\* turn.completed, and the accumulator is empty right after; between two
\* results the accumulator is the text streamed so far.
CodexResultIsStreamedText ==
    \A t \in Turns :
        turns[t].kind = "codex" =>
            /\ \A k \in DOMAIN turns[t].emitted :
                   turns[t].emitted[k].ev = "agent-result" =>
                       turns[t].emitted[k].data.text =
                           StreamedText(t, PrevResultNote(t, k) + 1, k - 1)
            /\ turns[t].acc =
                   StreamedText(t, PrevResultNote(t, Len(turns[t].emitted) + 1) + 1,
                                Len(turns[t].emitted))

\* C35 happens: a Codex child streamed "ab" in a started item and "hi" in a
\* completed message, then reported turn.completed: the result carries
\* "abhi" and the accumulator is empty.
ResultAfterTwoStreams ==
    \E t \in Turns :
        /\ turns[t].kind = "codex"
        /\ turns[t].lines = <<AgentMessage("item.started", TextAB),
                              MessageItem("item.completed", <<Hi>>),
                              TurnCompleted>>
        /\ Len(turns[t].emitted) = 3
        /\ turns[t].emitted[3].ev = "agent-result"
        /\ turns[t].emitted[3].data.text = TextAB \o Hi
        /\ turns[t].acc = <<>>

\* ------------------------------------------- de-duplication of completed items
\* The texts of a text-carrying Codex item, in block order.
ItemTexts(line) ==
    IF line.item.type = "agent_message" THEN <<line.item.text>>
    ELSE [i \in DOMAIN line.item.content |-> line.item.content[i].text]

IsTextLine(line) ==
    /\ line.raw = "json"
    /\ line.type \in {"item.started", "item.completed"}
    /\ line.item.type \in {"agent_message", "message"}

\* The position of the last turn.completed line of turn t before line k, or 0.
PrevTurnCompleted(t, k) ==
    LET before == {j \in 1..(k - 1) : turns[t].lines[j] = TurnCompleted}
    IN  IF before = {} THEN 0 ELSE CHOOSE j \in before : \A i \in before : i <= j

\* The texts turn t streamed from the lines after its last turn.completed and
\* before line k.
StreamedBefore(t, k) ==
    {turns[t].emitted[i].data.text :
        i \in {j \in DOMAIN turns[t].emitted :
                  /\ turns[t].emitted[j].ev = "agent-stream"
                  /\ turns[t].emitted[j].line > PrevTurnCompleted(t, k)
                  /\ turns[t].emitted[j].line < k}}

\* The texts line k of turn t streamed.
StreamedAt(t, k) ==
    {turns[t].emitted[i].data.text :
        i \in {j \in DOMAIN turns[t].emitted :
                  /\ turns[t].emitted[j].ev = "agent-stream"
                  /\ turns[t].emitted[j].line = k}}

\* C36: a non-empty text reported by item.completed is suppressed only if
\* that identical text was already streamed earlier in the same turn; every
\* text that was not streamed before is emitted as an agent-stream.
CompletedTextDedup ==
    \A t \in Turns :
        turns[t].kind = "codex" =>
            \A k \in DOMAIN turns[t].lines :
                LET line == turns[t].lines[k] IN
                (IsTextLine(line) /\ line.type = "item.completed") =>
                    \A i \in DOMAIN ItemTexts(line) :
                        LET text == ItemTexts(line)[i] IN
                        (text # <<>> /\ text \notin StreamedBefore(t, k)) =>
                            text \in StreamedAt(t, k)

\* ------------------------------------------- temp images of overlapping turns
\* The Codex turns whose child has been spawned and has not exited.
CodexChildrenAlive ==
    {t \in Turns : turns[t].kind = "codex" /\ turns[t].child = "alive"}

\* C37: the image files handed to a Codex child exist from its spawn until
\* it has exited: they are not deleted by the cleanup of another turn, and no
\* other turn whose child is running writes its images to the same paths.
TempImagesIsolated ==
    /\ \A t \in CodexChildrenAlive : turns[t].images \subseteq TEMP_DIR
    /\ \A t, u \in CodexChildrenAlive :
           t # u => turns[t].images \cap turns[u].images = {}

\* ------------------------------------------- view: session store and save
\* The session arms of the event handlers, statement by statement: the
\* in-memory cell is assigned under its lock, the lock is released, and then
\* save_session_to_disk / save_codex_session_to_disk writes the file. Each
\* worker is the reader thread of one running child.
AnnouncedSessions == {"s1", "s2"}

saveFrame ==
    <<libVars, locks, probe, TEMP_DIR, build, turns, handleVars, cwdVars,
      BACKEND_MODE, ACTIVE_SUBAGENTS, diag, ret>>

\* `*SESSION_ID.lock().unwrap() = Some(sid.clone());`
StoreSession(w, backend, sid) ==
    /\ threads[w] = Idle
    /\ IF backend = "claude"
       THEN SESSION_ID' = Some(sid) /\ UNCHANGED CODEX_SESSION_ID
       ELSE CODEX_SESSION_ID' = Some(sid) /\ UNCHANGED SESSION_ID
    /\ threads' = [threads EXCEPT ![w] =
                      [op |-> "save_session", pc |-> 2, backend |-> backend, sid |-> sid]]
    /\ UNCHANGED <<saveFrame, SESSION_FILE, CODEX_SESSION_FILE>>

\* `save_session_to_disk(&sid);`
SaveSessionToDisk(w) ==
    /\ threads[w] # Idle
    /\ threads[w].op = "save_session"
    /\ IF threads[w].backend = "claude"
       THEN SESSION_FILE' = Some(threads[w].sid) /\ UNCHANGED CODEX_SESSION_FILE
       ELSE CODEX_SESSION_FILE' = Some(threads[w].sid) /\ UNCHANGED SESSION_FILE
    /\ threads' = [threads EXCEPT ![w] = Idle]
    /\ UNCHANGED <<saveFrame, SESSION_ID, CODEX_SESSION_ID>>

NextSave ==
    \/ \E w \in Workers : \E backend \in {"claude", "codex"} :
         \E sid \in AnnouncedSessions : StoreSession(w, backend, sid)
    \/ \E w \in Workers : SaveSessionToDisk(w)

SpecSave == InitCli /\ [][NextSave]_vars

\* C38: memory and disk agree on the last announced session: whenever no
\* event handler is between its in-memory update and its file write, each
\* backend's session file holds the identifier an event last assigned to
\* that backend's in-memory session.
SessionFileMatchesMemory ==
    (\A w \in Workers : threads[w] = Idle) =>
        /\ IsSome(SESSION_ID) => SESSION_FILE = SESSION_ID
        /\ IsSome(CODEX_SESSION_ID) => CODEX_SESSION_FILE = CODEX_SESSION_ID

\* ------------------------------------------- lock order
\* Thread w is inside a handler and its next step is Mutex::lock on a cell
\* that is held.
Blocked(w) ==
    /\ threads[w] # Idle
    /\ NextStep(w).do = "lock"
    /\ locks[NextStep(w).on] # None

Running == {w \in Workers : threads[w] # Idle}

\* C39: deadlock freedom of the shared cells: a thread that asks for a lock
\* while it holds one holds SIDECAR_PROCESS and asks for DEV_MODE or
\* SIDECAR_STDIN, the only nestings there are, and whenever
\* some thread is inside a handler, some thread inside a handler can take its
\* next step.
DeadlockFree ==
    /\ \A w \in Running :
           (NextStep(w).do = "lock" /\ Held(w) # {}) =>
               Held(w) = {"SIDECAR_PROCESS"}
               /\ NextStep(w).on \in {"DEV_MODE", "SIDECAR_STDIN"}
    /\ Running # {} => \E w \in Running : ~Blocked(w)

\* C39 happens: one thread holds SIDECAR_PROCESS inside stop_sidecar and asks
\* for SIDECAR_STDIN, which another thread holds inside send_to_sidecar.
StopWaitsForSender ==
    \E w, v \in Workers :
        /\ threads[w] # Idle /\ threads[w].op = "stop_sidecar"
        /\ Held(w) = {"SIDECAR_PROCESS"}
        /\ Blocked(w)
        /\ threads[v] # Idle /\ threads[v].op = "send_to_sidecar"
        /\ Held(v) = {"SIDECAR_STDIN"}

\* ------------------------------------------- view: sequential turns
\* Turns that are spawned, announce their session, end and are followed by
\* another turn, with the clear and the directory change between or during
\* them.
NextContinuity ==
    \/ SendClaude("spawned", TRUE, TRUE)
    \/ SendCodex("spawned", TRUE)
    \/ SetBackendMode("codex")
    \/ \E t \in Turns : \E line \in SessionLines : ReadLine(t, line)
    \/ \E t \in Turns : ReadEof(t)
    \/ \E t \in Turns : ChildExit(t, "exit0")
    \/ \E t \in Turns : WaitChild(t, TRUE)
    \/ ClearAgentSession
    \/ SetSidecarCwd("p1")

SpecContinuity == InitCli /\ [][NextContinuity]_vars

\* The session identifier a line announces to the backend of its reader:
\* the session_id of a Claude system or result event, the thread_id of a
\* Codex thread.started event.
AnnouncedBy(kind, line) ==
    IF kind = "claude" /\ line.raw = "json" /\ line.type \in {"system", "result"}
       /\ "session_id" \in DOMAIN line
    THEN Some(line.session_id)
    ELSE IF kind = "codex" /\ line.raw = "json" /\ line.type = "thread.started"
            /\ "thread_id" \in DOMAIN line
    THEN Some(line.thread_id)
    ELSE None

\* The identifier a turn announced last among its first k lines.
RECURSIVE LastAnnounced(_, _)
LastAnnounced(t, k) ==
    IF k = 0 THEN None
    ELSE IF AnnouncedBy(turns[t].kind, turns[t].lines[k]) # None
    THEN AnnouncedBy(turns[t].kind, turns[t].lines[k])
    ELSE LastAnnounced(t, k - 1)

\* The child of a turn has exited and its reader thread has ended.
Ended(t) == turns[t].pc \in {"done", "aborted"} /\ turns[t].child # "alive"

\* C40: a turn spawned when every earlier turn of its backend has ended
\* carries no resume identifier when it is the first turn of that backend
\* since the launch or when the command before it was a clear of that
\* backend's session; when the command before it was the send of the previous
\* turn of the same backend (no clear and no directory change in between) and
\* no turn before that one announced a session (so none can have announced
\* out of turn), it carries the identifier that turn announced last, or the
\* one that turn was itself spawned with when it announced none.
SessionContinuity ==
    [][\A kind \in {"claude", "codex"} :
          LET new == turns'[Len(turns')]
              earlier == {t \in Turns : turns[t].kind = kind}
              prev == Len(turns)
          IN  ( /\ Len(turns') = Len(turns) + 1
                /\ new.kind = kind
                /\ \A t \in earlier : Ended(t) )
              => /\ earlier = {} => new.resume = None
                 /\ (ret = Ok("clear_agent_session") /\ BACKEND_MODE = kind)
                       => new.resume = None
                 /\ ( /\ ret = Ok("send_agent_message") /\ prev \in earlier
                      /\ \A t \in earlier \ {prev} :
                            LastAnnounced(t, Len(turns[t].lines)) = None )
                       => new.resume =
                            IF LastAnnounced(prev, Len(turns[prev].lines)) # None
                            THEN ResumeTokens(LastAnnounced(prev, Len(turns[prev].lines)))
                            ELSE turns[prev].resume
      ]_vars

\* ------------------------------------------- every handler together
Next ==
    \/ \E outcome \in ClaudeOutcomes : \E si, so \in BOOLEAN : SendClaude(outcome, si, so)
    \/ \E outcome \in CodexOutcomes : \E so \in BOOLEAN : SendCodex(outcome, so)
    \/ \E images \in ImageRequests : \E outcome \in CodexOutcomes : \E so \in BOOLEAN :
          SendCodexImages(images, outcome, so)
    \/ \E outcome \in SidecarOutcomes : \E so \in BOOLEAN : SendSidecar(outcome, so)
    \/ \E t \in Turns : \E line \in ClaudeLines \cup CodexLines \cup SidecarLines :
          ReadLine(t, line)
    \/ \E t \in Turns : ReadEof(t)
    \/ \E t \in Turns : StdoutReadError(t)
    \/ \E t \in Turns : \E status \in {"exit0", "exit1"} : ChildExit(t, status)
    \/ \E t \in Turns : \E waitOk \in BOOLEAN : WaitChild(t, waitOk)
    \/ \E t \in Turns : ReadStderr(t)
    \/ \E id \in ToolUseIds : ConfirmExitPlanMode(id)
    \/ \E id \in ToolUseIds : DenyExitPlanMode(id, <<"no">>)
    \/ \E id \in ToolUseIds : \E parses \in BOOLEAN :
          RespondToAskUserQuestion(id, parses, <<<<"q", "a">>>>)
    \/ SendToCurrentQuery("answer")
    \/ \E path \in Paths \cup {BadPath} : SetSidecarCwd(path)
    \/ ClearAgentSession
    \/ ClearClaudeSessionCmd
    \/ ClearCodexSessionCmd
    \/ \E mode \in {"claude", "codex", "gpt"} : SetBackendMode(mode)
    \/ StopSidecar
    \/ \E id \in ToolUseIds : \E parses \in BOOLEAN :
          AnswerAgentQuestion(id, parses, <<<<"q", "a">>>>)
    \/ \E w \in Workers : \E tryWaitOk \in BOOLEAN : \E outcome \in LibOutcomes :
         LibSendAgentMessage(w, tryWaitOk, outcome)
    \/ \E w \in Workers : LibSendQuery(w)
    \/ \E w \in Workers : LibClearAgentSession(w)
    \/ \E w \in Workers : \E op \in {"stop_sidecar", "quit_app"} : LibStopSidecar(w, op)
    \/ \E t \in Turns : \E line \in LibLines : LibReadLine(t, line)
    \/ \E t \in Turns : LibReadEof(t)
    \/ \E w \in Workers : \E op \in Handlers : BeginHandler(w, op)
    \/ \E w \in Workers : StepHandler(w)
    \/ \E w \in Workers : \E backend \in {"claude", "codex"} :
         \E sid \in AnnouncedSessions : StoreSession(w, backend, sid)
    \/ \E w \in Workers : SaveSessionToDisk(w)

Spec == Init /\ [][Next]_vars

====
